---- MODULE Spec2Model ----
(***************************************************************************)
(* Model of the Augur report pipeline: IncidentAnalyzer.generate_report    *)
(* (src/src/analyzer.py) and the timeline renderers (src/app.py).           *)
(*                                                                         *)
(* A text is a sequence of lexemes; each lexeme stands for the literal     *)
(* string it is written as, and a text for the concatenation of its        *)
(* lexemes.  The regular expressions of the source are computed on that     *)
(* sequence.  A sentinel marker is two lexemes (a head and a tail), so     *)
(* that removing a span can join a head and a tail into a new marker.      *)
(***************************************************************************)
EXTENDS Integers, Sequences, FiniteSets, TLC

VARIABLES response, report, events, chart, disk, analyzer, run, session, llm

vars == <<response, report, events, chart, disk, analyzer, run, session, llm>>

----------------------------------------------------------------------------
(* Bounds                                                                  *)

MaxChunks == 4

MaxLines == 2

MaxEvents == 2

----------------------------------------------------------------------------
(* Generic sequence helpers                                                *)

Min(S) == CHOOSE x \in S : \A y \in S : x <= y

Max(S) == CHOOSE x \in S : \A y \in S : y <= x

Slice(s, a, b) == IF a > b THEN <<>> ELSE SubSeq(s, a, b)

RECURSIVE Flatten(_)
Flatten(ss) == IF ss = <<>> THEN <<>> ELSE Head(ss) \o Flatten(Tail(ss))

SeqsUpTo(S, n) == UNION {[1..k -> S] : k \in 0..n}

----------------------------------------------------------------------------
(* Lexemes                                                                 *)

Whitespace == {" ", "\n"}

IsSpace(l) == l \in Whitespace

\* str.strip(): drop leading and trailing whitespace
Strip(s) ==
    LET nonws == {i \in 1..Len(s) : ~IsSpace(s[i])}
    IN  IF nonws = {} THEN <<>> ELSE SubSeq(s, Min(nonws), Max(nonws))

\* the literal lits occurs in text at position i
LitAt(text, i, lits) ==
    /\ i >= 1
    /\ i + Len(lits) - 1 <= Len(text)
    /\ \A k \in 1..Len(lits) : text[i + k - 1] = lits[k]

\* first position >= from at which the literal occurs, 0 when none
FirstLit(text, lits, from) ==
    LET hits == {i \in from..Len(text) : LitAt(text, i, lits)}
    IN  IF hits = {} THEN 0 ELSE Min(hits)

Contains(text, lits) == FirstLit(text, lits, 1) # 0

----------------------------------------------------------------------------
(* Sentinel markers  "=== NAME ==="  and  "=== END_NAME ==="               *)

Channels == {"TIMELINE_JSON", "MONITORING_CODE", "REGRESSION_TEST"}

OpenMarker(ch) ==
    CASE ch = "TIMELINE_JSON"   -> <<"=== TIMELINE_", "JSON ===">>
      [] ch = "MONITORING_CODE" -> <<"=== MONITORING_", "CODE ===">>
      [] ch = "REGRESSION_TEST" -> <<"=== REGRESSION_", "TEST ===">>

CloseMarker(ch) ==
    CASE ch = "TIMELINE_JSON"   -> <<"=== END_TIMELINE_", "JSON ===">>
      [] ch = "MONITORING_CODE" -> <<"=== END_MONITORING_", "CODE ===">>
      [] ch = "REGRESSION_TEST" -> <<"=== END_REGRESSION_", "TEST ===">>

NoMatch == [found |-> FALSE, start |-> 0, end |-> 0, group |-> <<>>]

\* re.search(open \s*(.*?)\s* close, text[from..], re.DOTALL): the leftmost
\* open marker that has a close marker after it, up to the first such close;
\* group(1) is the text between them without surrounding whitespace.
SearchSpanFrom(text, open, close, from) ==
    LET Span(s, c) ==
            IF s = 0 \/ c = 0 THEN NoMatch
            ELSE [found |-> TRUE, start |-> s, end |-> c + Len(close) - 1,
                  group |-> Strip(Slice(text, s + Len(open), c - 1))]
        Opened(s) ==
            Span(s, IF s = 0 THEN 0 ELSE FirstLit(text, close, s + Len(open)))
    IN  Opened(FirstLit(text, open, from))

SearchSpan(text, open, close) == SearchSpanFrom(text, open, close, 1)

\* re.sub(open \s*.*?\s* close, "", text, flags=re.DOTALL): every
\* non-overlapping match, scanning left to right, is removed
RECURSIVE SubSpansFrom(_, _, _, _)
SubSpansFrom(text, open, close, from) ==
    LET Without(m) ==
            IF ~m.found THEN Slice(text, from, Len(text))
            ELSE Slice(text, from, m.start - 1)
                     \o SubSpansFrom(text, open, close, m.end + 1)
    IN  Without(SearchSpanFrom(text, open, close, from))

SubSpans(text, open, close) == SubSpansFrom(text, open, close, 1)

----------------------------------------------------------------------------
(* Python values: what json.loads returns and what the render layer reads   *)

PyNone == [t |-> "none", v |-> 0]

PyInt(n) == [t |-> "int", v |-> n]

PyStr(s) == [t |-> "str", v |-> s]

PyList(s) == [t |-> "list", v |-> s]

PyDict(f) == [t |-> "dict", v |-> f]

EmptyList == PyList(<<>>)

\* Python truth value, as tested by "if not timeline_events"
Truthy(x) ==
    CASE x.t = "none" -> FALSE
      [] x.t = "int"  -> x.v # 0
      [] x.t = "str"  -> x.v # <<>>
      [] x.t = "list" -> x.v # <<>>
      [] x.t = "dict" -> DOMAIN x.v # {}

----------------------------------------------------------------------------
(* json.loads on a lexeme sequence                                         *)

Digits == {"0", "1", "2", "3"}

\* \d{2}, written after a ":" as the seconds; the last is no second
TwoDig == {"00", "01", "30", "75"}

\* the lexemes made of decimal digits only, their value and their width
DigitLex == Digits \cup TwoDig

DigitVal(d) ==
    CASE d = "0" -> 0 [] d = "1" -> 1 [] d = "2" -> 2 [] d = "3" -> 3
      [] d = "00" -> 0 [] d = "01" -> 1 [] d = "30" -> 30 [] d = "75" -> 75

DigitBase(d) == IF d \in Digits THEN 10 ELSE 100

JFail == [ok |-> FALSE, val |-> PyNone, next |-> 0]

JOk(v, n) == [ok |-> TRUE, val |-> v, next |-> n]

\* first position >= i that holds no whitespace (Len+1 when none)
SkipWs(t, i) ==
    LET rest == {j \in i..Len(t) : ~IsSpace(t[j])}
    IN  IF rest = {} THEN Len(t) + 1 ELSE Min(rest)

\* a string literal opening at the quote t[i]; a raw newline or a
\* backslash that starts no valid escape is a decode error
JString(t, i) ==
    LET q == {j \in (i + 1)..Len(t) : t[j] = "\""}
    IN  IF q = {} THEN JFail
        ELSE LET j == Min(q)
                 body == Slice(t, i + 1, j - 1)
             IN  IF \E k \in 1..Len(body) : body[k] \in {"\n", "\\"}
                 THEN JFail
                 ELSE JOk(PyStr(body), j + 1)

\* a number: a run of digits; after a leading zero no digit may follow
JNumber(t, i) ==
    LET stop == {j \in i..Len(t) : t[j] \notin DigitLex}
        e == IF stop = {} THEN Len(t) ELSE Min(stop) - 1
        F[k \in (i - 1)..e] ==
            IF k < i THEN 0 ELSE DigitBase(t[k]) * F[k - 1] + DigitVal(t[k])
    IN  IF t[i] \in {"00", "01"} \/ (t[i] = "0" /\ e > i) THEN JFail
        ELSE JOk(PyInt(F[e]), e + 1)

RECURSIVE JValue(_, _)
RECURSIVE JElems(_, _, _)
RECURSIVE JMembers(_, _, _)

JValue(t, i0) ==
    LET Array(j) ==
            IF j <= Len(t) /\ t[j] = "]" THEN JOk(EmptyList, j + 1)
            ELSE JElems(t, j, <<>>)
        Object(j) ==
            IF j <= Len(t) /\ t[j] = "}" THEN JOk(PyDict(<<>>), j + 1)
            ELSE JMembers(t, j, <<>>)
        Value(i) ==
            IF i > Len(t) THEN JFail
            ELSE CASE t[i] = "["  -> Array(SkipWs(t, i + 1))
                   [] t[i] = "{"  -> Object(SkipWs(t, i + 1))
                   [] t[i] = "\"" -> JString(t, i)
                   [] t[i] = "null" -> JOk(PyNone, i + 1)
                   [] t[i] \in DigitLex -> JNumber(t, i)
                   [] OTHER -> JFail
    IN  Value(SkipWs(t, i0))

\* elements of an array after "[": value ("," value)* "]"
JElems(t, i, acc) ==
    LET Sep(v, j) ==
            IF j > Len(t) THEN JFail
            ELSE IF t[j] = "]" THEN JOk(PyList(Append(acc, v.val)), j + 1)
            ELSE IF t[j] = "," THEN JElems(t, j + 1, Append(acc, v.val))
            ELSE JFail
        Elem(v) == IF ~v.ok THEN JFail ELSE Sep(v, SkipWs(t, v.next))
    IN  Elem(JValue(t, i))

\* members of an object after "{": string ":" value ("," ...)* "}";
\* a repeated key keeps its last value
JMembers(t, i0, acc) ==
    LET Sep(acc2, j) ==
            IF j > Len(t) THEN JFail
            ELSE IF t[j] = "}" THEN JOk(PyDict(acc2), j + 1)
            ELSE IF t[j] = "," THEN JMembers(t, j + 1, acc2)
            ELSE JFail
        Member(k, v) ==
            IF ~v.ok THEN JFail
            ELSE Sep([x \in (DOMAIN acc) \cup {k} |-> IF x = k THEN v.val ELSE acc[x]],
                     SkipWs(t, v.next))
        Colon(k, c) ==
            IF c <= Len(t) /\ t[c] = ":" THEN Member(k.val.v, JValue(t, c + 1))
            ELSE JFail
        Key(k) == IF ~k.ok THEN JFail ELSE Colon(k, SkipWs(t, k.next))
        Start(i) ==
            IF i <= Len(t) /\ t[i] = "\"" THEN Key(JString(t, i)) ELSE JFail
    IN  Start(SkipWs(t, i0))

\* json.loads(s): [ok |-> FALSE] stands for JSONDecodeError
JsonLoads(s) ==
    LET Whole(v) == IF v.ok /\ SkipWs(s, v.next) > Len(s) THEN v ELSE JFail
    IN  Whole(JValue(s, 1))

\* re.search of the json fence pattern in content (re.DOTALL): the text
\* between the first opening fence and the next three backquotes, which
\* may be the first three characters of a later opening fence.  The lexeme
\* "<fence>" stands for three backquotes.
JsonBlock(content) ==
    LET Block(s, cs) ==
            IF s = 0 \/ cs = {} THEN NoMatch
            ELSE [found |-> TRUE, start |-> s, end |-> Min(cs),
                  group |-> Strip(Slice(content, s + 1, Min(cs) - 1))]
        Opened(s) ==
            Block(s, IF s = 0 THEN {}
                     ELSE {j \in (s + 1)..Len(content) :
                              content[j] \in {"<fence>", "<fence>json"}})
    IN  Opened(FirstLit(content, <<"<fence>json">>, 1))

----------------------------------------------------------------------------
(* Timestamp lexemes                                                       *)

\* \d{4}-\d{2}-\d{2}; the last is no calendar date
DateLex == {"2024-01-15", "2024-01-16", "2024-01-17", "2024-13-45"}

\* \d{2}:\d{2}; the last is no time of day
HmLex == {"00:15", "14:00", "14:30", "16:00", "23:30", "25:00"}

\* lexemes that are one character long
OneChar == Digits \cup {".", ":", "-", " ", "\n", "\\", "#", "x",
                        "[", "]", "{", "}", ",", "\""}

KeyTime == <<"time">>

KeyEvent == <<"event">>

\* the dict {"time": t, "event": e}
Event(t, e) ==
    PyDict([k \in {KeyTime, KeyEvent} |-> IF k = KeyTime THEN PyStr(t) ELSE PyStr(e)])

----------------------------------------------------------------------------
(* IncidentAnalyzer._extract_timeline                                      *)

At(text, i) == IF i >= 1 /\ i <= Len(text) THEN text[i] ELSE "<eof>"

\* number of lexemes of (?::[0-9]{2})? when taken at i (0 when it cannot be)
SecAt(text, i) == IF At(text, i) = ":" /\ At(text, i + 1) \in TwoDig THEN 2 ELSE 0

\* r"2\\. Timeline of Events:" at i: a "2", a backslash, any one character,
\* a blank and the heading words
HeadingAt(text, i) ==
    /\ At(text, i) = "2"
    /\ At(text, i + 1) = "\\"
    /\ At(text, i + 2) \in OneChar
    /\ At(text, i + 3) = " "
    /\ At(text, i + 4) = "Timeline of Events:"

\* end of the whitespace run that starts at p (p - 1 when there is none)
WsRunEnd(text, p) ==
    LET stop == {j \in p..Len(text) : ~IsSpace(text[j])}
    IN  IF stop = {} THEN Len(text) ELSE Min(stop) - 1

\* \s*\n after the heading: the position after the last newline of the
\* whitespace run at p, 0 when the run holds no newline
AfterHeadingNewline(text, p) ==
    LET nl == {j \in p..WsRunEnd(text, p) : text[j] = "\n"}
    IN  IF nl = {} THEN 0 ELSE Max(nl) + 1

\* \n\d+\.\s at e
NextSectionAt(text, e) ==
    /\ At(text, e) = "\n"
    /\ \E k \in (e + 1)..Len(text) :
          /\ \A j \in (e + 1)..k : text[j] \in DigitLex
          /\ At(text, k + 1) = "."
          /\ IsSpace(At(text, k + 2))

\* $ without re.MULTILINE: the end, or just before a final newline
DollarAt(text, e) ==
    \/ e = Len(text) + 1
    \/ e = Len(text) /\ text[e] = "\n"

\* the section search of _extract_timeline: group(1) of the leftmost match
TimelineSection(text) ==
    LET Section(i, g, e) ==
            [found |-> TRUE, start |-> i, end |-> e - 1, group |-> Slice(text, g, e - 1)]
        Body(i, g) ==
            Section(i, g, Min({j \in g..(Len(text) + 1) :
                                 NextSectionAt(text, j) \/ DollarAt(text, j)}))
        Heading(hs) ==
            IF hs = {} THEN NoMatch
            ELSE Body(Min(hs), AfterHeadingNewline(text, Min(hs) + 5))
    IN  Heading({i \in 1..Len(text) :
                    HeadingAt(text, i) /\ AfterHeadingNewline(text, i + 5) # 0})

\* lengths the timestamp group of the event-line pattern can take at p, as
\* the set of <<rank, length>>: seconds and the range part are optional and
\* greedy, so a lower rank is tried first
StampShapes(text, p) ==
    IF ~(At(text, p) \in DateLex /\ At(text, p + 1) = " " /\ At(text, p + 2) \in HmLex)
    THEN {}
    ELSE LET secs == {0, SecAt(text, p + 3)}
             rng(q) == IF At(text, q) = "-" /\ At(text, q + 1) \in HmLex
                       THEN {2 + x : x \in {0, SecAt(text, q + 2)}} \cup {0}
                       ELSE {0}
         IN  UNION {{<<(2 - s1) * 10 + (4 - r), 3 + s1 + r>> : r \in rng(p + 3 + s1)} :
                       s1 \in secs}

\* the event-line pattern at p: the first shape that a ":" follows
EventLineAt(text, p) ==
    LET Line(n, d, e) ==
            [found |-> TRUE, start |-> p, end |-> e,
             group |-> <<Slice(text, p, p + n - 1), Slice(text, d, e)>>]
        ToEol(n, d, nl) == Line(n, d, IF nl = {} THEN Len(text) ELSE Min(nl) - 1)
        Desc(n, d) == ToEol(n, d, {j \in d..Len(text) : text[j] = "\n"})
        Stamp(sh) == Desc(sh[2], WsRunEnd(text, p + sh[2] + 1) + 1)
        First(ok) ==
            IF ok = {} THEN NoMatch
            ELSE Stamp(CHOOSE a \in ok : \A b \in ok : a[1] <= b[1])
    IN  First({sh \in StampShapes(text, p) : At(text, p + sh[2]) = ":"})

\* re.findall(event-line pattern, text, re.MULTILINE) from position p on
RECURSIVE FindEventLines(_, _)
FindEventLines(text, p) ==
    LET Found(m) ==
            IF m.found
            THEN <<m.group>> \o FindEventLines(text, m.end + 1)
            ELSE FindEventLines(text, p + 1)
    IN  IF p > Len(text) THEN <<>>
        ELSE Found(IF p = 1 \/ text[p - 1] = "\n" THEN EventLineAt(text, p) ELSE NoMatch)

\* _extract_timeline(report_text): the list of {"time", "event"} dicts
ExtractTimeline(report_text) ==
    LET Events(event_lines) ==
            PyList([k \in 1..Len(event_lines) |->
                       Event(event_lines[k][1], Strip(event_lines[k][2]))])
        Section(timeline_section_match) ==
            Events(IF timeline_section_match.found
                   THEN FindEventLines(timeline_section_match.group, 1)
                   ELSE <<>>)
    IN  Section(TimelineSection(report_text))

----------------------------------------------------------------------------
(* IncidentAnalyzer.generate_report                                        *)

TOpen == OpenMarker("TIMELINE_JSON")

TClose == CloseMarker("TIMELINE_JSON")

\* as LoadTimelineJson, without the inner except clause: the decode error
\* reaches the outer handler
LoadTimelineJson_Uncaught(content) ==
    LET Loaded(parsed) ==
            IF parsed.ok THEN [raised |-> FALSE, value |-> parsed.val]
            ELSE [raised |-> TRUE, value |-> EmptyList]
        Block(json_block) ==
            IF ~json_block.found THEN [raised |-> FALSE, value |-> EmptyList]
            ELSE Loaded(JsonLoads(json_block.group))
    IN  Block(JsonBlock(Strip(content)))

\* the inner try block: the json fence of the timeline channel, parsed; a
\* decode error is caught and leaves the empty list
LoadTimelineJson(content) ==
    LET Loaded(parsed) ==
            IF parsed.ok THEN [raised |-> FALSE, value |-> parsed.val]
            ELSE [raised |-> FALSE, value |-> EmptyList]
        Block(json_block) ==
            IF ~json_block.found THEN [raised |-> FALSE, value |-> EmptyList]
            ELSE Loaded(JsonLoads(json_block.group))
    IN  Block(JsonBlock(Strip(content)))

\* as NeedsFallback, with the test left out: the fallback always runs
NeedsFallback_Always(timeline_events) == TRUE

\* "if not timeline_events": does the text fallback run for this value
NeedsFallback(timeline_events) == ~Truthy(timeline_events)

\* one side channel: re.search, and re.sub only when the search matched
ExtractChannel(text, ch) ==
    LET Channel(m) ==
            IF m.found
            THEN [found |-> TRUE, code |-> Strip(m.group),
                  text |-> Strip(SubSpans(text, OpenMarker(ch), CloseMarker(ch)))]
            ELSE [found |-> FALSE, code |-> <<>>, text |-> text]
    IN  Channel(SearchSpan(text, OpenMarker(ch), CloseMarker(ch)))

\* as RemoveTimeline, with the re.sub left out: the channel stays in the text
RemoveTimeline_Kept(text) == Strip(text)

\* the timeline channel is removed whether or not the search matched
RemoveTimeline(text) == Strip(SubSpans(text, TOpen, TClose))

Raised == [pc |-> "raised", report_markdown |-> <<>>, timeline_events |-> EmptyList,
           monitoring_code |-> <<>>, regression_test_code |-> <<>>,
           fallback_called |-> FALSE, fallback_arg |-> <<>>]

\* the body of the try block of generate_report, for the answer of llm.invoke
GenerateReport(resp) ==
    LET Return(text1, fallback, timeline_events, mon, reg) ==
            [pc |-> "returned",
             report_markdown |-> reg.text,
             timeline_events |-> timeline_events,
             monitoring_code |-> mon.code,
             regression_test_code |-> reg.code,
             fallback_called |-> fallback,
             fallback_arg |-> IF fallback THEN text1 ELSE <<>>]
        \* lines 202-208: the regression test channel of what is left
        Regression(text1, fallback, timeline_events, mon) ==
            Return(text1, fallback, timeline_events, mon,
                   ExtractChannel(mon.text, "REGRESSION_TEST"))
        \* lines 194-200: the monitoring channel
        Monitoring(text1, fallback, timeline_events) ==
            Regression(text1, fallback, timeline_events,
                       ExtractChannel(text1, "MONITORING_CODE"))
        \* lines 190-192: the text fallback, on the text without the channel
        Fallback(loaded, text1, fallback) ==
            Monitoring(text1, fallback,
                       IF fallback THEN ExtractTimeline(text1) ELSE loaded.value)
        \* line 188: the timeline channel is removed
        Removed(loaded, text1) ==
            IF loaded.raised THEN Raised
            ELSE Fallback(loaded, text1, NeedsFallback(loaded.value))
        \* lines 175-185: the timeline channel is searched and parsed
        Timeline(report_text, timeline_match) ==
            Removed(IF timeline_match.found
                    THEN LoadTimelineJson(timeline_match.group)
                    ELSE [raised |-> FALSE, value |-> EmptyList],
                    RemoveTimeline(report_text))
    IN  IF ~resp.ok THEN Raised
        ELSE Timeline(resp.content, SearchSpan(resp.content, TOpen, TClose))

Idle == [pc |-> "idle", report_markdown |-> <<>>, timeline_events |-> EmptyList,
         monitoring_code |-> <<>>, regression_test_code |-> <<>>,
         fallback_called |-> FALSE, fallback_arg |-> <<>>]

----------------------------------------------------------------------------
(* Model responses: the texts llm.invoke can answer with                   *)

MOpen == OpenMarker("MONITORING_CODE")

MClose == CloseMarker("MONITORING_CODE")

ROpen == OpenMarker("REGRESSION_TEST")

RClose == CloseMarker("REGRESSION_TEST")

Quoted(str) == <<"\"">> \o str \o <<"\"">>

\* the JSON text of {"time": t, "event": e}
EventJson(t, e) ==
    <<"{">> \o Quoted(KeyTime) \o <<":", " ">> \o Quoted(t) \o <<",", " ">>
            \o Quoted(KeyEvent) \o <<":", " ">> \o Quoted(e) \o <<"}">>

\* the JSON text of an array of the given element texts
RECURSIVE Joined(_)
Joined(elems) ==
    IF elems = <<>> THEN <<>>
    ELSE IF Len(elems) = 1 THEN elems[1]
    ELSE elems[1] \o <<",", "\n">> \o Joined(Tail(elems))

ArrayJson(elems) == <<"[">> \o Joined(elems) \o <<"]">>

Fenced(doc) == <<"<fence>json", "\n">> \o doc \o <<"\n", "<fence>">>

Stamp1 == <<"2024-01-15", " ", "14:00", ":", "00">>

Stamp2 == <<"2024-01-15", " ", "14:30">>

\* the events a well-formed timeline array is drawn from
SampleEvents == {<<Stamp1, <<"x">>>>, <<Stamp2, <<"y">>>>}

EventLists == SeqsUpTo(SampleEvents, MaxEvents)

EventsJson(evs) == ArrayJson([k \in 1..Len(evs) |-> EventJson(evs[k][1], evs[k][2])])

EventsValue(evs) == PyList([k \in 1..Len(evs) |-> Event(evs[k][1], evs[k][2])])

FullDoc == EventsJson(<<<<Stamp1, <<"x">>>>, <<Stamp2, <<"y">>>>>>)

\* truncated documents: every proper, non-empty prefix of a two-event array
TruncatedDocs == {SubSeq(FullDoc, 1, n) : n \in 1..(Len(FullDoc) - 1)}

\* syntactically valid JSON that is not an array of {"time", "event"} objects
OtherShapeDocs ==
    { EventJson(Stamp1, <<"x">>),
      <<"{", "}">>,
      <<"1">>,
      <<"0">>,
      <<"null">>,
      Quoted(<<"x">>),
      Quoted(<<>>),
      ArrayJson(<<<<"1">>, <<"2">>>>),
      ArrayJson(<<Quoted(<<"x">>)>>),
      ArrayJson(<<<<"{">> \o Quoted(KeyTime) \o <<":">> \o <<"1">> \o <<",">>
                        \o Quoted(KeyEvent) \o <<":">> \o Quoted(<<"x">>) \o <<"}">>>>),
      ArrayJson(<<<<"{">> \o Quoted(KeyEvent) \o <<":">> \o Quoted(<<"x">>) \o <<"}">>>>) }

\* not JSON at all
BrokenDocs == TruncatedDocs \cup {<<"x">>, <<>>, <<"[", "1", ",", "]">>, <<"[", "]", "x">>}

\* what stands between the timeline markers
WellFormedContents == {Fenced(EventsJson(evs)) : evs \in EventLists}

MalformedContents ==
    {Fenced(d) : d \in BrokenDocs}
        \cup {<<"x">>, <<>>, EventsJson(<<<<Stamp1, <<"x">>>>>>)}
        \cup {<<"<fence>json", "\n">> \o FullDoc}

OtherShapeContents == {Fenced(d) : d \in OtherShapeDocs}

\* report text with a "Timeline of Events" section
HeadingPrefixes == {<<>>, <<"#", "#", "#", " ">>}

HeadingSeparators == {<<".">>, <<"\\", ".">>}

Stamp3 == <<"2024-01-16", " ", "00:15", ":", "30">>

\* lines of the form  YYYY-MM-DD HH:MM:SS: text
PlainLine(stamp, text) == stamp \o <<":", " ">> \o text

PlainEvents == {<<Stamp1, <<"x">>>>, <<Stamp3, <<"y">>>>}

LineShapes ==
    { PlainLine(Stamp1, <<"x">>),
      PlainLine(Stamp3, <<"y">>),
      Stamp2 \o <<":", " ", "y", " ">>,
      Stamp2 \o <<"-", "14:30", ":", "x">>,
      <<"-", " ">> \o Stamp1 \o <<":", " ", "x">>,
      Stamp1 \o <<" ", "x">> }

Trailers == {<<>>, <<"\n", "3", ".", " ", "x">>}

RECURSIVE LinesText(_)
LinesText(lines) ==
    IF lines = <<>> THEN <<>>
    ELSE IF Len(lines) = 1 THEN lines[1]
    ELSE lines[1] \o <<"\n">> \o LinesText(Tail(lines))

SectionText(prefix, sep, lines, trailer) ==
    prefix \o <<"2">> \o sep \o <<" ", "Timeline of Events:", "\n">>
           \o LinesText(lines) \o trailer

SectionTexts ==
    {SectionText(p, s, l, t) : p \in HeadingPrefixes, s \in HeadingSeparators,
                               l \in SeqsUpTo(LineShapes, MaxLines), t \in Trailers}

\* free mixtures of markers, halves of markers and marked spans
MarkerChunks ==
    { TOpen, TClose, MOpen, MClose, ROpen, RClose,
      <<"=== REGRESSION_">>, <<"TEST ===">>,
      ROpen \o <<" ", "r", "\n">> \o RClose,
      TOpen \o <<"\n">> \o Fenced(EventsJson(<<<<Stamp1, <<"x">>>>>>)) \o <<"\n">> \o TClose,
      <<"x">> }

MarkerTexts == {Flatten(cs) : cs \in SeqsUpTo(MarkerChunks, MaxChunks)}

\* what follows the timeline channel, with what the rest of
\* generate_report is to make of it: the narrative left of it, the events
\* of its "Timeline of Events" section, the two code channels
SectionRest ==
    [text |-> <<"\n">> \o SectionText(<<>>, <<"\\", ".">>, <<Stamp1 \o <<":", " ", "x">>>>, <<>>),
     narrative |-> <<"\n">> \o SectionText(<<>>, <<"\\", ".">>, <<Stamp1 \o <<":", " ", "x">>>>, <<>>),
     section_events |-> <<<<Stamp1, <<"x">>>>>>,
     monitoring_code |-> <<>>,
     regression_test_code |-> <<>>]

CodeRest ==
    [text |-> <<"\n">> \o MOpen \o <<"m">> \o MClose \o <<"\n">> \o ROpen \o <<"r">> \o RClose,
     narrative |-> <<"\n", "\n">>,
     section_events |-> <<>>,
     monitoring_code |-> <<"m">>,
     regression_test_code |-> <<"r">>]

NoRest ==
    [text |-> <<>>, narrative |-> <<>>, section_events |-> <<>>,
     monitoring_code |-> <<>>, regression_test_code |-> <<>>]

Rests == {NoRest, SectionRest, CodeRest}

\* a timeline channel with content c inside a report
ChannelText(c, r) ==
    <<"x", "\n">> \o TOpen \o <<"\n">> \o c \o <<"\n">> \o TClose \o r.text

ChannelTexts ==
    {ChannelText(c, r) :
        c \in WellFormedContents \cup MalformedContents \cup OtherShapeContents,
        r \in Rests}

Responses ==
    {[ok |-> FALSE, content |-> <<>>]}
        \cup {[ok |-> TRUE, content |-> t] :
                 t \in MarkerTexts \cup ChannelTexts \cup SectionTexts}

----------------------------------------------------------------------------
(* render_timeline_with_events (src/app.py)                                *)

\* datetime.strptime on the fields: days since 2024-01-15, minutes since
\* midnight, seconds; -1 where strptime raises ValueError
DateVal(d) ==
    CASE d = "2024-01-15" -> 0 [] d = "2024-01-16" -> 1 [] d = "2024-01-17" -> 2
      [] OTHER -> -1

HmVal(h) ==
    CASE h = "00:15" -> 15 [] h = "14:00" -> 840 [] h = "14:30" -> 870
      [] h = "16:00" -> 960 [] h = "23:30" -> 1410 [] OTHER -> -1

SecVal(x) == CASE x = "00" -> 0 [] x = "01" -> 1 [] x = "30" -> 30 [] OTHER -> -1

None == [ok |-> FALSE, t |-> 0]

\* length of  \d{4}-\d{2}-\d{2} \d{2}:\d{2}(?::\d{2})?  at i, 0 when no match
StampAt(s, i) ==
    IF At(s, i) \in DateLex /\ At(s, i + 1) = " " /\ At(s, i + 2) \in HmLex
    THEN 3 + SecAt(s, i + 3) ELSE 0

\* length of  \d{2}:\d{2}(?::\d{2})?  at i, 0 when no match
TimeOnlyAt(s, i) == IF At(s, i) \in HmLex THEN 1 + SecAt(s, i + 1) ELSE 0

\* parse_time(time_str): the instant in seconds, or None
ParseTime(time_str) ==
    LET Instant(d, m, sec) ==
            IF d < 0 \/ m < 0 \/ sec < 0 THEN None
            ELSE [ok |-> TRUE, t |-> d * 86400 + m * 60 + sec]
        Fields(n) ==
            IF n = 0 THEN None
            ELSE Instant(DateVal(time_str[1]), HmVal(time_str[3]),
                         IF n = 5 THEN SecVal(time_str[5]) ELSE 0)
    IN  Fields(StampAt(time_str, 1))

\* the range pattern matched at the start of time_field: group(1), group(2)
RangeMatch(time_field) ==
    LET End(n, k, n2) ==
            IF n2 = 0 THEN NoMatch
            ELSE [found |-> TRUE, start |-> 1, end |-> k + n2 - 1,
                  group |-> <<Slice(time_field, 1, n), Slice(time_field, k, k + n2 - 1)>>]
        Second(n, k) ==
            End(n, k, IF TimeOnlyAt(time_field, k) > 0 THEN TimeOnlyAt(time_field, k)
                      ELSE StampAt(time_field, k))
        Dash(n, dash) ==
            IF At(time_field, dash) # "-" THEN NoMatch
            ELSE Second(n, SkipWs(time_field, dash + 1))
        First(n) == IF n = 0 THEN NoMatch ELSE Dash(n, SkipWs(time_field, n + 1))
    IN  First(StampAt(time_field, 1))

\* event.get('time', '')
TimeField(event) == IF KeyTime \in DOMAIN event.v THEN event.v[KeyTime].v ELSE <<>>

\* as EndStrFull, with the end taken as it is written
EndStrFull_AsWritten(start_str, end_str) == end_str

\* lines 504-509: an end that is only a time takes the date of the start
EndStrFull(start_str, end_str) ==
    IF TimeOnlyAt(end_str, 1) = Len(end_str)
    THEN <<start_str[1], " ">> \o end_str
    ELSE end_str

\* one pass of the loop over timeline_events: what the event is parsed to
ParseEvent(event) ==
    LET \* lines 511-513: a range needs both ends, else the event is skipped
        Range(start_dt, end_dt) ==
            IF start_dt.ok /\ end_dt.ok
            THEN [kind |-> "range", start |-> start_dt.t, end |-> end_dt.t]
            ELSE [kind |-> "dropped", start |-> 0, end |-> 0]
        \* lines 501-510: a time-only end takes the date of the start
        Ends(start_str, end_str) ==
            Range(ParseTime(start_str), ParseTime(EndStrFull(start_str, end_str)))
        \* lines 515-517: a single time
        Point(dt) ==
            IF dt.ok THEN [kind |-> "point", start |-> dt.t, end |-> dt.t]
            ELSE [kind |-> "dropped", start |-> 0, end |-> 0]
        Matched(time_field, range_match) ==
            IF range_match.found
            THEN Ends(range_match.group[1], range_match.group[2])
            ELSE Point(ParseTime(time_field))
        Field(time_field) == Matched(time_field, RangeMatch(time_field))
    IN  Field(TimeField(event))

\* a list, filtered, keeping order
RECURSIVE SelectIdx(_, _)
SelectIdx(n, keep) ==
    IF n = 0 THEN <<>>
    ELSE IF n \in keep THEN Append(SelectIdx(n - 1, keep), n) ELSE SelectIdx(n - 1, keep)

\* as Project, measured from the epoch and not from the start of the axis
Project_FromEpoch(t, start_time, duration, fixed) ==
    IF duration > 0
    THEN [num |-> t * 100, den |-> duration, zerodiv |-> FALSE]
    ELSE [num |-> fixed, den |-> 1, zerodiv |-> FALSE]

\* as Project, without the guard on the duration
Project_Unguarded(t, start_time, duration, fixed) ==
    [num |-> (t - start_time) * 100, den |-> duration, zerodiv |-> duration = 0]

\* (t - start_time) / duration * 100 when the guard "duration > 0" holds,
\* else the fixed value; a division by zero is recorded
Project(t, start_time, duration, fixed) ==
    IF duration > 0
    THEN [num |-> (t - start_time) * 100, den |-> duration, zerodiv |-> FALSE]
    ELSE [num |-> fixed, den |-> 1, zerodiv |-> FALSE]

Placeholder(msg) ==
    [pc |-> "placeholder", message |-> msg, dots |-> <<>>, ranges |-> <<>>,
     start_time |-> 0, end_time |-> 0]

NoSignificant == "No significant timeline events found for charting."

AtLeastTwo == "A timeline requires at least two events with valid timestamps."

\* "if not timeline_events or len(timeline_events) < 2"
TooFewEvents(evs) == Len(evs) < 2

\* "if not parsed_events and not range_events"
NothingParsed(points, ranges) == points = <<>> /\ ranges = <<>>

RenderTimelineWithEvents(timeline_events) ==
    LET \* lines 544-569: the markup, or the ZeroDivisionError of a projection
        Markup(start_time, end_time, dots, ranges) ==
            IF \/ \E i \in 1..Len(dots) : dots[i].pos.zerodiv
               \/ \E i \in 1..Len(ranges) :
                     ranges[i].left.zerodiv \/ ranges[i].right.zerodiv
            THEN [pc |-> "raised", message |-> "ZeroDivisionError",
                  dots |-> <<>>, ranges |-> <<>>,
                  start_time |-> start_time, end_time |-> end_time]
            ELSE [pc |-> "chart", message |-> "", dots |-> dots, ranges |-> ranges,
                  start_time |-> start_time, end_time |-> end_time]
        \* lines 548-550: a bar from the start to the end of a range
        Bar(left, right, data) ==
            [left |-> left, right |-> right,
             width |-> [num |-> right.num - left.num, den |-> left.den],
             data |-> data]
        \* lines 547-567: the place of every kept event on the axis
        Axis(evs, parsed, parsed_events, range_events, start_time, end_time, duration) ==
            Markup(start_time, end_time,
                   [i \in 1..Len(parsed_events) |->
                       [pos |-> Project(parsed[parsed_events[i]].start,
                                        start_time, duration, 50),
                        data |-> evs[parsed_events[i]]]],
                   [i \in 1..Len(range_events) |->
                       Bar(Project(parsed[range_events[i]].start, start_time, duration, 0),
                           Project(parsed[range_events[i]].end, start_time, duration, 100),
                           evs[range_events[i]])])
        \* lines 524-526: start_time, end_time, duration
        Times(evs, parsed, parsed_events, range_events, all_times) ==
            Axis(evs, parsed, parsed_events, range_events,
                 Min(all_times), Max(all_times), Max(all_times) - Min(all_times))
        \* lines 519-523: the guard on the two lists, then all_times
        Lists(evs, parsed, parsed_events, range_events, kept) ==
            IF NothingParsed(parsed_events, range_events) THEN Placeholder(AtLeastTwo)
            ELSE Times(evs, parsed, parsed_events, range_events,
                       {parsed[k].start : k \in kept} \cup {parsed[k].end : k \in kept})
        \* lines 494-517: the loop fills parsed_events and range_events
        Loop(evs, parsed) ==
            Lists(evs, parsed,
                  SelectIdx(Len(evs), {k \in 1..Len(evs) : parsed[k].kind = "point"}),
                  SelectIdx(Len(evs), {k \in 1..Len(evs) : parsed[k].kind = "range"}),
                  {k \in 1..Len(evs) : parsed[k].kind # "dropped"})
        \* line 476: the guard on the argument
        Events(evs) ==
            IF TooFewEvents(evs) THEN Placeholder(NoSignificant)
            ELSE Loop(evs, [k \in 1..Len(evs) |-> ParseEvent(evs[k])])
    IN  Events(timeline_events.v)

----------------------------------------------------------------------------
(* The report tab: the timeline of the generated report is rendered        *)

IsStr(x) == x.t = "str"

\* fewer than two characters
ShortStr(str) == Len(str) = 0 \/ (Len(str) = 1 /\ str[1] \in OneChar)

ChartRaised(msg) ==
    [pc |-> "raised", message |-> msg, dots |-> <<>>, ranges |-> <<>>,
     start_time |-> 0, end_time |-> 0]

\* the loop body on this element raises: it has no .get, or its time is
\* no string for re.match
ElementRaises(e) ==
    \/ e.t # "dict"
    \/ KeyTime \in DOMAIN e.v /\ ~IsStr(e.v[KeyTime])

\* render_timeline_with_events(results.get('timeline_events', [])) on
\* whatever value generate_report returned
RenderValue(x) ==
    CASE x.t = "list" ->
            IF TooFewEvents(x.v) THEN Placeholder(NoSignificant)
            ELSE IF \E k \in 1..Len(x.v) : ElementRaises(x.v[k])
            THEN ChartRaised("TypeError")
            ELSE RenderTimelineWithEvents(x)
      [] x.t = "dict" ->
            IF Cardinality(DOMAIN x.v) < 2 THEN Placeholder(NoSignificant)
            ELSE ChartRaised("TypeError")
      [] x.t = "str" ->
            IF ShortStr(x.v) THEN Placeholder(NoSignificant)
            ELSE ChartRaised("TypeError")
      [] x.t = "int" ->
            IF x.v = 0 THEN Placeholder(NoSignificant) ELSE ChartRaised("TypeError")
      [] x.t = "none" -> Placeholder(NoSignificant)

----------------------------------------------------------------------------
(* Report generation as a state machine                                    *)

NoEvents == EmptyList

NoChart == [pc |-> "idle", message |-> "", dots |-> <<>>, ranges |-> <<>>,
            start_time |-> 0, end_time |-> 0]

\* no incident directory, no IncidentAnalyzer object, no command running
NoDisk == [exists |-> FALSE, logs |-> {}, metrics |-> {}, root |-> {},
           report_file |-> "absent"]

NoAnalyzer == [pc |-> "none", api_key |-> PyNone, llm |-> FALSE,
               memory |-> PyNone, conversation_initialized |-> PyNone]

NoRun == [entry |-> "none", pc |-> "done", api_key |-> PyNone, env_key |-> PyNone,
          uploaded_files |-> <<>>, context |-> <<>>, output |-> <<>>, exit_code |-> 0]

\* st.session_state before the first script run has filled it in (an absent
\* key reads as None); widget is the widget that caused the last script run
\* and screen what that run has drawn
NoSession ==
    [current_view |-> "home", incident_id |-> PyNone, analysis_results |-> PyNone,
     chat_history |-> <<>>, report_for_chat |-> PyNone, raw_context_for_chat |-> PyNone,
     audience_summaries |-> [executive |-> PyNone, customer |-> PyNone],
     executive_summary_generated |-> FALSE, customer_summary_generated |-> FALSE,
     widget |-> "none", screen |-> "home"]

\* the client of the analyzer in the session: how often follow_up_question
\* has invoked it and the messages it was last given
NoLlm == [calls |-> 0, received |-> <<>>]

NotAnalyzing ==
    /\ disk = NoDisk /\ analyzer = NoAnalyzer /\ run = NoRun
    /\ session = NoSession /\ llm = NoLlm

\* llm.invoke has answered (or failed); generate_report has not yet run
InitReport ==
    /\ response \in Responses
    /\ report = Idle
    /\ NotAnalyzing
    /\ events = NoEvents
    /\ chart = NoChart

\* generate_report runs to its return or to its RuntimeError
DoGenerateReport ==
    /\ report.pc = "idle"
    /\ report' = GenerateReport(response)
    /\ UNCHANGED <<response, events, chart, disk, analyzer, run, session, llm>>

\* render_analysis_view draws the timeline of the returned report
DoRenderReport ==
    /\ report.pc = "returned"
    /\ chart.pc = "idle"
    /\ events' = report.timeline_events
    /\ chart' = RenderValue(report.timeline_events)
    /\ UNCHANGED <<response, report, disk, analyzer, run, session, llm>>

NextReport == DoGenerateReport \/ DoRenderReport

SpecReport == InitReport /\ [][NextReport]_vars

----------------------------------------------------------------------------
(* Timeline rendering as a state machine                                   *)

MaxTimeline == 3

NoResponse == [ok |-> FALSE, content |-> <<>>]

\* the time strings the event lists are drawn from
TimeStrings ==
    { Stamp1,
      Stamp2,
      <<"2024-01-16", " ", "00:15">>,
      <<"2024-01-15", " ", "14:00", " ", "-", " ", "14:30">>,
      <<"2024-01-15", " ", "23:30", " ", "-", " ", "00:15">>,
      <<"2024-01-15", " ", "14:00", ":", "00", " ", "-", " ", "2024-01-16", " ", "00:15">>,
      <<"2024-01-15", " ", "14:30", " ", "-", " ", "25:00">>,
      <<"2024-13-45", " ", "14:00", " ", "-", " ", "14:30">>,
      <<"2024-13-45", " ", "14:00">>,
      <<"2024-01-15", " ", "14:00", ":", "75">>,
      <<"x">>,
      <<>> }

TimelineEvents ==
    {Event(t, <<"e">>) : t \in TimeStrings}
        \cup {PyDict([k \in {KeyEvent} |-> PyStr(<<"e">>)])}

TimelineInputs == {PyList(l) : l \in SeqsUpTo(TimelineEvents, MaxTimeline)}

InitRender ==
    /\ events \in TimelineInputs
    /\ chart = NoChart
    /\ response = NoResponse
    /\ report = Idle
    /\ NotAnalyzing

\* render_timeline_with_events(timeline_events)
DoRenderTimeline ==
    /\ chart.pc = "idle"
    /\ chart' = RenderValue(events)
    /\ UNCHANGED <<response, report, events, disk, analyzer, run, session, llm>>

NextRender == DoRenderTimeline

SpecRender == InitRender /\ [][NextRender]_vars

TypeOK ==
    /\ report.pc \in {"idle", "returned", "raised"}
    /\ chart.pc \in {"idle", "placeholder", "chart", "raised", "markers", "markup"}

----------------------------------------------------------------------------
(* Timeline rendering of range events                                      *)

\* dates and times of day that strptime accepts
ValidDates == {d \in DateLex : DateVal(d) >= 0}

ValidTimes == {h \in HmLex : HmVal(h) >= 0}

\* the seconds as written: none, or ":SS"
SecondsTexts == {<<>>} \cup {<<":", x>> : x \in {x \in TwoDig : SecVal(x) >= 0}}

\* "D T1[:S1] - T2[:S2]" and "D1 T1[:S1] - D2 T2[:S2]"; d2 = <<>> when the
\* right-hand side has no date
RangeText(d1, t1, s1, d2, t2, s2) ==
    <<d1, " ", t1>> \o s1 \o <<" ", "-", " ">> \o d2 \o <<t2>> \o s2

RangeParts ==
    [d1 : ValidDates, t1 : ValidTimes, s1 : SecondsTexts,
     d2 : {<<>>} \cup {<<d, " ">> : d \in ValidDates}, t2 : ValidTimes, s2 : SecondsTexts]

RangeField(p) == RangeText(p.d1, p.t1, p.s1, p.d2, p.t2, p.s2)

\* a single instant, 2024-01-15 14:00
PointEvent == Event(<<"2024-01-15", " ", "14:00">>, <<"p">>)

\* a range event and a point event
RangeInputs == {PyList(<<Event(RangeField(p), <<"e">>), PointEvent>>) : p \in RangeParts}

InitRange ==
    /\ events \in RangeInputs
    /\ chart = NoChart
    /\ response = NoResponse
    /\ report = Idle
    /\ NotAnalyzing

NextRange == DoRenderTimeline

SpecRange == InitRange /\ [][NextRange]_vars

----------------------------------------------------------------------------
(* render_horizontal_timeline (src/app.py), one step per loop iteration    *)

MaxAxisEvents == 2

\* the pattern of parse_start_time at i: as StampAt, with \s between the
\* date and the time
StartStampAt(s, i) ==
    IF At(s, i) \in DateLex /\ IsSpace(At(s, i + 1)) /\ At(s, i + 2) \in HmLex
    THEN 3 + SecAt(s, i + 3) ELSE 0

\* parse_start_time(time_str): strptime with either format, whose blank
\* takes any whitespace; the instant in seconds, or None
ParseStartTime(time_str) ==
    LET Instant(d, m, sec) ==
            IF d < 0 \/ m < 0 \/ sec < 0 THEN None
            ELSE [ok |-> TRUE, t |-> d * 86400 + m * 60 + sec]
        Fields(n) ==
            IF n = 0 THEN None
            ELSE Instant(DateVal(time_str[1]), HmVal(time_str[3]),
                         IF n = 5 THEN SecVal(time_str[5]) ELSE 0)
    IN  Fields(StartStampAt(time_str, 1))

NoTimelineEvents == "No timeline events to display."

\* lines 366-374: the step and the first marker, by the duration
Granularity(start_time, duration) ==
    IF duration < 2 * 3600
    THEN [step |-> 600, start_marker |-> start_time - (start_time % 600)]
    ELSE IF duration < 2 * 86400
    THEN [step |-> 3600, start_marker |-> start_time - (start_time % 3600)]
    ELSE [step |-> 86400, start_marker |-> start_time - (start_time % 86400)]

\* lines 346-376: from the call to the head of the while loop
HorizontalStart(timeline_events) ==
    LET Frame(pc, parsed_events, start_time, end_time, g) ==
            [pc |-> pc, message |-> "", dots |-> <<>>, ranges |-> <<>>,
             start_time |-> start_time, end_time |-> end_time,
             parsed_events |-> parsed_events, step |-> g.step,
             current_marker_time |-> g.start_marker,
             markers |-> <<>>, labels |-> <<>>]
        \* lines 364-376: markers are made only when more than a second passes
        Markers(parsed_events, start_time, end_time) ==
            IF end_time - start_time > 1
            THEN Frame("markers", parsed_events, start_time, end_time,
                       Granularity(start_time, end_time - start_time))
            ELSE Frame("markup", parsed_events, start_time, end_time,
                       [step |-> 0, start_marker |-> 0])
        \* lines 356-362
        Times(parsed_events) ==
            IF Len(parsed_events) < 2 THEN Placeholder(AtLeastTwo)
            ELSE Markers(parsed_events,
                         Min({parsed_events[i].dt : i \in 1..Len(parsed_events)}),
                         Max({parsed_events[i].dt : i \in 1..Len(parsed_events)}))
        \* lines 350-354
        Loop(evs, idx) ==
            Times([i \in 1..Len(idx) |->
                      [dt |-> ParseStartTime(TimeField(evs[idx[i]])).t,
                       data |-> evs[idx[i]]]])
        \* lines 346-348
        Events(evs) ==
            IF evs = <<>> THEN Placeholder(NoTimelineEvents)
            ELSE Loop(evs, SelectIdx(Len(evs),
                         {k \in 1..Len(evs) : ParseStartTime(TimeField(evs[k])).ok}))
    IN  Events(timeline_events.v)

\* as MarkerStep, stepping twice
MarkerStep_Skipping(f) ==
    [f EXCEPT !.markers = Append(@, f.current_marker_time),
              !.current_marker_time = @ + 2 * f.step]

\* lines 378-380: the body of the while loop
MarkerStep(f) ==
    [f EXCEPT !.markers = IF f.current_marker_time >= f.start_time - f.step
                          THEN Append(@, f.current_marker_time) ELSE @,
              !.current_marker_time = @ + f.step]

\* lines 442-465: the labels and the dots that are written to the page
HorizontalMarkup(f) ==
    LET duration == f.end_time - f.start_time
        Label(dt) ==
            [dt |-> dt, pos |-> [num |-> (dt - f.start_time) * 100, den |-> duration]]
        \* lines 443-446: "if 0 <= pos_percent <= 100", under "duration > 0"
        Drawn(l) == duration > 0 /\ 0 <= l.pos.num /\ l.pos.num <= 100 * duration
    IN  [f EXCEPT !.pc = "chart",
                  !.labels = SelectSeq([i \in 1..Len(f.markers) |-> Label(f.markers[i])],
                                       Drawn),
                  !.dots = [i \in 1..Len(f.parsed_events) |->
                               [pos |-> Project(f.parsed_events[i].dt, f.start_time,
                                                duration, 50),
                                data |-> f.parsed_events[i].data]]]

\* the time strings of the event lists
AxisTimeStrings ==
    { <<"2024-01-15", " ", "14:00", ":", "00">>,
      <<"2024-01-15", " ", "14:00", ":", "01">>,
      <<"2024-01-15", "\n", "14:30">>,
      <<"2024-01-15", " ", "16:00">>,
      <<"2024-01-17", " ", "14:00">>,
      <<"2024-01-17", " ", "14:00", ":", "01">>,
      <<"2024-01-15", " ", "14:30", " ", "-", " ", "16:00">>,
      <<"2024-01-15", " ", "14:00", " ", "-", " ", "2024-01-17", " ", "14:00">>,
      <<"2024-13-45", " ", "14:00">>,
      <<>> }

AxisInputs ==
    {PyList(l) : l \in SeqsUpTo({Event(t, <<"e">>) : t \in AxisTimeStrings}, MaxAxisEvents)}

InitAxis ==
    /\ events \in AxisInputs
    /\ chart = NoChart
    /\ response = NoResponse
    /\ report = Idle
    /\ NotAnalyzing

\* render_horizontal_timeline(timeline_events) is called
DoHorizontalStart ==
    /\ chart.pc = "idle"
    /\ chart' = HorizontalStart(events)
    /\ UNCHANGED <<response, report, events, disk, analyzer, run, session, llm>>

\* line 377 holds: one more pass of the while loop
DoMarkerStep ==
    /\ chart.pc = "markers"
    /\ chart.current_marker_time <= chart.end_time + chart.step
    /\ chart' = MarkerStep(chart)
    /\ UNCHANGED <<response, report, events, disk, analyzer, run, session, llm>>

\* the loop is over, or was not entered: the page is written
DoHorizontalMarkup ==
    /\ \/ chart.pc = "markup"
       \/ /\ chart.pc = "markers"
          /\ chart.current_marker_time > chart.end_time + chart.step
    /\ chart' = HorizontalMarkup(chart)
    /\ UNCHANGED <<response, report, events, disk, analyzer, run, session, llm>>

NextAxis == DoHorizontalStart \/ DoMarkerStep \/ DoHorizontalMarkup

SpecAxis == InitAxis /\ [][NextAxis]_vars

\* once the loop is reached the function runs to its return: neither a pass
\* of the loop nor the writing of the page waits for anything
SpecAxisFair == SpecAxis /\ WF_vars(DoMarkerStep) /\ WF_vars(DoHorizontalMarkup)

----------------------------------------------------------------------------
(* Analysis of an incident directory: the upload form and                  *)
(* analyze_incident_data (src/app.py), the analyze command (src/src/main.py) *)
(* and IncidentAnalyzer (src/src/analyzer.py)                              *)

MaxUploads == 2

PlaceholderKey == PyStr(<<"YOUR_API_KEY_HERE">>)

\* an api_key argument, or os.getenv("GOOGLE_API_KEY")
Keys == {PyNone, PyStr(<<>>), PlaceholderKey, PyStr(<<"k">>)}

\* os.path.splitext(filename)[1]
Ext(filename) ==
    CASE filename = "a.log" -> ".log" [] filename = "b.LOG" -> ".LOG"
      [] filename = "m.csv" -> ".csv" [] filename = "n.txt" -> ".txt"
      [] filename = "d.json" -> ".json"

\* str.lower() on an extension
Lower(ext) == IF ext = ".LOG" THEN ".log" ELSE ext

UploadNames == {"a.log", "b.LOG", "m.csv", "n.txt", "d.json"}

\* as NewAnalyzer, reading the argument only
NewAnalyzer_ArgumentOnly(api_key, env_key) ==
    IF ~Truthy(api_key) \/ api_key = PlaceholderKey
    THEN [NoAnalyzer EXCEPT !.pc = "raised", !.api_key = api_key]
    ELSE [pc |-> "created", api_key |-> api_key, llm |-> TRUE,
          memory |-> EmptyList, conversation_initialized |-> PyInt(0)]

\* IncidentAnalyzer.__init__(api_key) with GOOGLE_API_KEY = env_key: the
\* attributes set when it returns or raises ValueError (False is 0)
NewAnalyzer(api_key, env_key) ==
    LET Keyed(key) ==
            IF ~Truthy(key) \/ key = PlaceholderKey
            THEN [NoAnalyzer EXCEPT !.pc = "raised", !.api_key = key]
            ELSE [pc |-> "created", api_key |-> key, llm |-> TRUE,
                  memory |-> EmptyList, conversation_initialized |-> PyInt(0)]
    IN  Keyed(IF Truthy(api_key) THEN api_key ELSE env_key)

\* save_uploaded_files(uploaded_files): temp_incident is made anew and each
\* file is written where its lowercased extension sends it
SaveUploadedFiles(uploaded_files) ==
    LET Names(exts) ==
            {uploaded_files[i] : i \in {i \in 1..Len(uploaded_files) :
                                           Lower(Ext(uploaded_files[i])) \in exts}}
    IN  [exists |-> TRUE, logs |-> Names({".log"}), metrics |-> Names({".csv"}),
         root |-> Names({".txt", ".json"}), report_file |-> "absent"]

\* the orders in which a directory may list the files of S
Listings(S) ==
    {l \in [1..Cardinality(S) -> S] : \A i, j \in DOMAIN l : i # j => l[i] # l[j]}

\* _load_and_prepare_data(incident_path): the exception raised, or the
\* contexts it may return: one "=== Log: name ===" or "=== Metrics: name
\* ===" block per file that glob("*.log") and glob("*.csv") list
LoadAndPrepareData(d) ==
    LET Blocks(kind, names) == [i \in DOMAIN names |-> <<kind, names[i]>>]
        Found(logs, metrics) ==
            IF logs = {} /\ metrics = {}
            THEN [error |-> "ValueError", contexts |-> {}]
            ELSE [error |-> "",
                  contexts |-> {Blocks("Log", l) \o Blocks("Metrics", m) :
                                   l \in Listings(logs), m \in Listings(metrics)}]
    IN  IF ~d.exists THEN [error |-> "FileNotFoundError", contexts |-> {}]
        ELSE Found({n \in d.logs : Ext(n) = ".log"}, {n \in d.metrics : Ext(n) = ".csv"})

\* f.write(value): a file takes text only
FileWrite(value) == IF value.t = "str" THEN "written" ELSE "TypeError"

\* the command or the view has ended with these messages
Ended(r, messages, code) ==
    [r EXCEPT !.pc = "done", !.output = @ \o messages, !.exit_code = code]

PathNotFound == "Incident path not found"

ConfigurationError == "Configuration error"

ErrorAnalyzing == "Error analyzing incident"

FailedToAnalyze == "Failed to analyze incident"

AnalysisComplete == "Analysis complete!"

\* the answers of llm.invoke that the analysis is run with
AnalyzeResponses ==
    {[ok |-> FALSE, content |-> <<>>],
     [ok |-> TRUE, content |-> <<"x">>],
     [ok |-> TRUE, content |-> ChannelText(Fenced(FullDoc), CodeRest)]}

\* the incident directories the analyze command is run on
Disks ==
    {NoDisk} \cup
    {[exists |-> TRUE, logs |-> l, metrics |-> m, root |-> r, report_file |-> "absent"] :
        l \in SUBSET {"a.log"}, m \in SUBSET {"m.csv"}, r \in SUBSET {"n.txt"}}

\* "analyze <incident_path>" on the command line, "Analyze My Data" on the
\* upload form, and generate_audience_summary
Runs ==
    {[NoRun EXCEPT !.entry = "cli", !.pc = "start", !.env_key = e] : e \in Keys}
    \cup {[NoRun EXCEPT !.entry = "upload", !.pc = "start", !.api_key = k,
                          !.env_key = e, !.uploaded_files = u] :
              k \in Keys \ {PyNone}, e \in Keys, u \in SeqsUpTo(UploadNames, MaxUploads)}
    \cup {[NoRun EXCEPT !.entry = "summary", !.pc = "analysis", !.api_key = k,
                          !.env_key = e] : k \in Keys, e \in Keys}

InitAnalyze ==
    /\ response \in AnalyzeResponses
    /\ report = Idle
    /\ events = NoEvents
    /\ chart = NoChart
    /\ analyzer = NoAnalyzer
    /\ run \in Runs
    /\ session = NoSession /\ llm = NoLlm
    /\ disk \in IF run.entry = "cli" THEN Disks ELSE {NoDisk}

\* src/app.py 308-320: the button "Analyze My Data"
DoAnalyzeMyData ==
    /\ run.entry = "upload" /\ run.pc = "start"
    /\ IF ~Truthy(run.api_key)
       THEN /\ run' = Ended(run, <<"Please enter your Google AI API Key.">>, 0)
            /\ disk' = disk
       ELSE IF run.uploaded_files = <<>>
       THEN /\ run' = Ended(run, <<"Please upload your incident files.">>, 0)
            /\ disk' = disk
       ELSE /\ disk' = SaveUploadedFiles(run.uploaded_files)
            /\ run' = [run EXCEPT !.pc = "analysis"]
    /\ UNCHANGED <<response, report, events, chart, analyzer, session, llm>>

\* src/src/main.py 48-53: the path is validated; typer.Exit, raised inside
\* the try block, is a RuntimeError and is caught by "except Exception"
DoCheckPath ==
    /\ run.entry = "cli" /\ run.pc = "start"
    /\ run' = IF disk.exists THEN [run EXCEPT !.pc = "analysis"]
              ELSE Ended(run, <<PathNotFound, ErrorAnalyzing>>, 1)
    /\ UNCHANGED <<response, report, events, chart, disk, analyzer, session, llm>>

\* IncidentAnalyzer(api_key) at main.py 56, app.py 103 and app.py 60, with
\* the handler of its ValueError
DoConstruct ==
    /\ run.pc = "analysis"
    /\ analyzer.pc = "none"
    /\ analyzer' = NewAnalyzer(run.api_key, run.env_key)
    /\ run' = CASE analyzer'.pc = "raised" /\ run.entry = "cli" ->
                      Ended(run, <<ConfigurationError>>, 1)
                [] analyzer'.pc = "raised" /\ run.entry = "upload" ->
                      Ended(run, <<FailedToAnalyze>>, 0)
                [] analyzer'.pc = "raised" /\ run.entry = "summary" ->
                      Ended(run, <<"ValueError">>, 0)
                [] analyzer'.pc = "created" /\ run.entry = "summary" ->
                      Ended(run, <<>>, 0)
                [] OTHER -> [run EXCEPT !.pc = "constructed"]
    /\ UNCHANGED <<response, report, events, chart, disk, session, llm>>

\* analyzer.generate_report(incident_path) at main.py 62 and app.py 104, with
\* the handlers of what it raises
DoAnalyze ==
    /\ run.pc = "constructed"
    /\ LET Failed(error) ==
               IF run.entry = "upload" THEN Ended(run, <<FailedToAnalyze>>, 0)
               ELSE IF error = "ValueError" THEN Ended(run, <<ConfigurationError>>, 1)
               ELSE Ended(run, <<ErrorAnalyzing>>, 1)
           Loaded(data) ==
               IF data.error # ""
               THEN /\ run' = Failed(data.error)
                    /\ report' = report
               ELSE \E context \in data.contexts :
                       /\ report' = GenerateReport(response)
                       /\ run' = IF report'.pc = "raised"
                                 THEN Failed("RuntimeError")
                                 ELSE IF run.entry = "upload"
                                 THEN [Ended(run, <<>>, 0) EXCEPT !.context = context]
                                 ELSE [run EXCEPT !.pc = "generated",
                                                  !.context = context,
                                                  !.output = @ \o <<"POST-MORTEM REPORT">>]
       IN  Loaded(LoadAndPrepareData(disk))
    /\ UNCHANGED <<response, events, chart, disk, analyzer, session, llm>>

\* src/src/main.py 71-76: the report is written to post_mortem_report.md;
\* open(..., 'w') has made the file before f.write is given the dict
DoSaveReport ==
    /\ run.entry = "cli" /\ run.pc = "generated"
    /\ LET Written(result) ==
               /\ disk' = [disk EXCEPT !.report_file =
                                IF result = "written" THEN "written" ELSE "empty"]
               /\ run' = IF result = "written"
                         THEN Ended(run, <<"Report saved", AnalysisComplete>>, 0)
                         ELSE Ended(run, <<ErrorAnalyzing>>, 1)
       IN  Written(FileWrite(PyDict([k \in {"report_markdown"} |-> PyStr(report.report_markdown)])))
    /\ UNCHANGED <<response, report, events, chart, analyzer, session, llm>>

NextAnalyze ==
    DoAnalyzeMyData \/ DoCheckPath \/ DoConstruct \/ DoAnalyze \/ DoSaveReport

SpecAnalyze == InitAnalyze /\ [][NextAnalyze]_vars

----------------------------------------------------------------------------
(* Extraction of the code sections by their headings (src/test_extraction.py) *)

\* the heading texts as re.IGNORECASE takes them
MonitoringHeading == {"Suggested Monitoring as Code", "suggested monitoring as code"}

RegressionHeading == {"Suggested Regression Test"}

\* the four patterns of a heading, in the order they are tried: the number
\* of "#" (0 for "#+") and whether "\s*\n" must follow the heading text
SectionPatterns ==
    <<[hashes |-> 0, newline |-> TRUE], [hashes |-> 2, newline |-> TRUE],
      [hashes |-> 3, newline |-> TRUE], [hashes |-> 0, newline |-> FALSE]>>

\* the pattern matched at i:  #+ | ## | ###,  \s*,  the heading text,
\* \s*\n (greedy: up to the last newline of the blank run) or \s*, then
\* (.*?) up to the first "\n#" or the end of the text
SectionAt(text, i, pat, heading) ==
    LET Group(g, stops) ==
            [found |-> TRUE, start |-> i,
             end |-> IF stops = {} THEN Len(text) ELSE Min(stops) - 1,
             group |-> Slice(text, g, IF stops = {} THEN Len(text) ELSE Min(stops) - 1)]
        From(g) ==
            IF g = 0 THEN NoMatch
            ELSE Group(g, {q \in g..Len(text) : text[q] = "\n" /\ At(text, q + 1) = "#"})
        Blank(k, e, nls) ==
            From(IF ~pat.newline THEN e ELSE IF nls = {} THEN 0 ELSE Max(nls) + 1)
        Text(w) ==
            IF At(text, w) \notin heading THEN NoMatch
            ELSE Blank(w + 1, SkipWs(text, w + 1),
                       {j \in (w + 1)..(SkipWs(text, w + 1) - 1) : text[j] = "\n"})
        Hashes(h) == IF h = 0 THEN NoMatch ELSE Text(SkipWs(text, i + h))
        Run(stop) == IF stop = {} THEN Len(text) + 1 - i ELSE Min(stop) - i
    IN  Hashes(IF pat.hashes = 0
               THEN Run({j \in i..Len(text) : text[j] # "#"})
               ELSE IF \A j \in i..(i + pat.hashes - 1) : At(text, j) = "#"
               THEN pat.hashes ELSE 0)

\* re.search(pattern, text[from..], re.DOTALL | re.IGNORECASE)
SearchSection(text, pat, heading, from) ==
    LET hits == {i \in from..Len(text) : SectionAt(text, i, pat, heading).found}
    IN  IF hits = {} THEN NoMatch ELSE SectionAt(text, Min(hits), pat, heading)

\* re.sub(pattern, "", text[from..]): every match is removed
RECURSIVE SubSections(_, _, _, _)
SubSections(text, pat, heading, from) ==
    LET Without(m) ==
            IF ~m.found THEN Slice(text, from, Len(text))
            ELSE Slice(text, from, m.start - 1)
                     \o SubSections(text, pat, heading, m.end + 1)
    IN  Without(SearchSection(text, pat, heading, from))

\* lines 84-90 and 100-106: the first pattern that matches gives the code
\* and is removed from the report wherever it matches
ExtractSection(sample_report, heading) ==
    LET Matched(pat) ==
            [code |-> Strip(SearchSection(sample_report, pat, heading, 1).group),
             text |-> Strip(SubSections(sample_report, pat, heading, 1))]
        First(matching) ==
            IF matching = {} THEN [code |-> <<>>, text |-> sample_report]
            ELSE Matched(SectionPatterns[Min(matching)])
    IN  First({k \in 1..Len(SectionPatterns) :
                  SearchSection(sample_report, SectionPatterns[k], heading, 1).found})

\* lines 72-106: the monitoring section is taken out first, then the
\* regression test section out of what is left
TestExtraction(sample_report) ==
    LET Regression(mon, reg) ==
            [Idle EXCEPT !.pc = "returned", !.report_markdown = reg.text,
                         !.monitoring_code = mon.code,
                         !.regression_test_code = reg.code]
        Monitoring(mon) == Regression(mon, ExtractSection(mon.text, RegressionHeading))
    IN  Monitoring(ExtractSection(sample_report, MonitoringHeading))

\* a section: heading line and content
SectionShapes(heading, code) ==
    {h \o <<w>> \o a \o c :
        h \in {<<"#", " ">>, <<"#", "#", " ">>, <<"#", "#", "#">>},
        w \in heading,
        a \in {<<"\n">>, <<"\n", "\n">>, <<" ", "(x)", "\n">>},
        c \in {<<"<fence>", "\n", code, "\n", "<fence>">>,
               <<"<fence>", "\n", "#", " ", "c", "\n", code, "\n", "<fence>">>,
               <<"<fence>", "\n", " ", "#", " ", "c", "\n", code, "\n", "<fence>">>,
               <<>>}}

\* reports with both sections, in either order, with and without a section
\* before and after them
SampleReports ==
    {b \o s1 \o <<"\n", "\n">> \o s2 \o a :
        b \in {<<>>, <<"#", "#", " ", "Summary", "\n", "x", "\n", "\n">>},
        s1 \in SectionShapes({"Suggested Monitoring as Code"}, "m"),
        s2 \in SectionShapes(RegressionHeading, "r"),
        a \in {<<>>, <<"\n", "\n", "#", "#", " ", "After", "\n", "y">>}}
    \cup {s2 \o <<"\n">> \o s1 :
        s1 \in SectionShapes(MonitoringHeading, "m"),
        s2 \in SectionShapes(RegressionHeading, "r")}

InitExtraction ==
    /\ response \in {[ok |-> TRUE, content |-> t] : t \in SampleReports}
    /\ report = Idle
    /\ events = NoEvents
    /\ chart = NoChart
    /\ NotAnalyzing

\* test_regression_test_extraction() runs on the sample report
DoTestExtraction ==
    /\ report.pc = "idle"
    /\ report' = TestExtraction(response.content)
    /\ UNCHANGED <<response, events, chart, disk, analyzer, run, session, llm>>

NextExtraction == DoTestExtraction

SpecExtraction == InitExtraction /\ [][NextExtraction]_vars

----------------------------------------------------------------------------
(* The chat about an incident: the conversation memory of IncidentAnalyzer *)
(* (src/src/analyzer.py) and the session of the web page (src/app.py)      *)

\* questions asked in one chat history, model invocations of one analyzer
MaxQuestions == 2

MaxCalls == 2

\* AIMessage(content=...) and HumanMessage(content=...)
Message(type, content) == [type |-> type, content |-> content]

\* a value as an f-string writes it
Formatted(x) == IF x.t = "str" THEN x.v ELSE <<"None">>

\* the message built by initialize_conversation
SystemMessage(incident_context, report_markdown) ==
    Message("ai", <<"INCIDENT CONTEXT (raw data):">> \o Formatted(incident_context)
                      \o <<"POST-MORTEM REPORT:">> \o Formatted(report_markdown)
                      \o <<"IMPORTANT GUIDELINES:">>)

InitializeConversation(a, incident_context, report_markdown) ==
    [a EXCEPT !.memory = PyList(Append(@.v, SystemMessage(incident_context, report_markdown))),
              !.conversation_initialized = PyInt(1)]

\* as ClearConversation, with the flag left as it is
ClearConversation_MemoryOnly(a) == [a EXCEPT !.memory = EmptyList]

\* as ClearConversation, with the memory left as it is
ClearConversation_FlagOnly(a) == [a EXCEPT !.conversation_initialized = PyInt(0)]

ClearConversation(a) ==
    [a EXCEPT !.memory = EmptyList, !.conversation_initialized = PyInt(0)]

\* as ContextMissing, with the test left out
ContextMissing_Never(incident_context, report_context) == FALSE

\* "if not incident_context or not report_context"
ContextMissing(incident_context, report_context) ==
    ~Truthy(incident_context) \/ ~Truthy(report_context)

NoContextMessage ==
    <<"I don't have access to the incident context. Please make sure you've analyzed an incident first.">>

Apology ==
    <<"I'm sorry, but I encountered an error while processing your question: ">>

\* follow_up_question(question, incident_context, report_context) on the
\* analyzer a whose client is l, for the outcome resp of llm.invoke: the
\* analyzer and the client afterwards, and the string returned
FollowUpQuestion(a, l, question, incident_context, report_context, resp) ==
    LET Invoked(b, messages) ==
            IF resp.ok
            THEN [analyzer |-> [b EXCEPT !.memory =
                                    PyList(Append(messages, Message("ai", Strip(resp.content))))],
                  llm |-> [calls |-> l.calls + 1, received |-> messages],
                  result |-> Strip(resp.content)]
            ELSE [analyzer |-> b,
                  llm |-> [calls |-> l.calls + 1, received |-> messages],
                  result |-> Apology \o resp.content]
        Asked(b, messages) == Invoked([b EXCEPT !.memory = PyList(messages)], messages)
        Initialized(b) == Asked(b, Append(b.memory.v, Message("human", question)))
    IN  IF ~Truthy(a.conversation_initialized)
        THEN IF ContextMissing(incident_context, report_context)
             THEN [analyzer |-> a, llm |-> l, result |-> NoContextMessage]
             ELSE Initialized(InitializeConversation(a, incident_context, report_context))
        ELSE Initialized(a)

\* the demo incidents, and the directory of an upload
Demos == {"demo-1", "demo-2"}

TempIncident == "temp_incident"

\* what the model and the loader make of an incident directory
ReportOf(id) == <<"report of", id>>

ContextOf(id) == <<"data of", id>>

TimelineOf(id) == PyList(<<PyStr(<<"event of", id>>)>>)

\* analyze_incident_data(incident_path, api_key) with GOOGLE_API_KEY =
\* env_key: None when the constructor or generate_report raises, else the
\* results with the raw context ("" when it could not be loaded) and the
\* analyzer attached
AnalyzeIncidentData(incident_path, api_key, env_key) ==
    LET Constructed(a) ==
            IF a.pc = "raised" THEN {[results |-> PyNone, analyzer |-> a]}
            ELSE {[results |-> PyNone, analyzer |-> a]}
                 \cup {[results |-> PyDict([report_markdown |-> PyStr(r),
                                            timeline_events |-> TimelineOf(incident_path),
                                            raw_context |-> PyStr(c)]),
                        analyzer |-> a] :
                          r \in {<<>>, ReportOf(incident_path)},
                          c \in {<<>>, ContextOf(incident_path)}}
    IN  Constructed(NewAnalyzer(api_key, env_key))

\* generate_audience_summary(report_md, prompt): the answer of the model to
\* the prompt that holds the report
GenerateAudienceSummary(report_md, audience) ==
    PyStr(<<"summary for", audience, "of">> \o report_md)

\* the assignments of the buttons "Analyze Demo" and "Analyze My Data"
EnterAnalysis(s, id) ==
    [s EXCEPT !.incident_id = PyStr(<<id>>), !.current_view = "analysis",
              !.chat_history = <<>>]

\* as BackToHome, with analysis_results left as it is
BackToHome_KeepingResults(s) ==
    [s EXCEPT !.current_view = "home", !.incident_id = PyNone,
              !.chat_history = <<>>, !.widget = "back_home_btn", !.screen = "home"]

\* the assignments of the button "Back to Home"
BackToHome(s) ==
    [s EXCEPT !.current_view = "home", !.incident_id = PyNone,
              !.analysis_results = PyNone, !.chat_history = <<>>,
              !.widget = "back_home_btn", !.screen = "home"]

\* render_analysis_view from line 585 on, for the widget that caused the
\* script run and the outcomes in of the calls it makes: the session, the
\* analyzer in it and its client afterwards
RenderAnalysisView(s, a, l, widget, in) ==
    LET Shown(s1, a1, l1, screen) ==
            [session |-> [s1 EXCEPT !.widget = widget, !.screen = screen],
             analyzer |-> a1, llm |-> l1]
        Answered(s1, f) ==
            Shown([s1 EXCEPT !.chat_history =
                       @ \o <<<<"user", in.question>>, <<"assistant", f.result>>>>],
                  f.analyzer, f.llm, "tabs")
        \* lines 698-735: the chat tab; st.rerun() after a clear finds
        \* nothing left to do
        ChatTab(s1, a1, l1) ==
            IF widget = "clear_chat"
            THEN Shown([s1 EXCEPT !.chat_history = <<>>],
                       IF a1.pc = "created" THEN ClearConversation(a1) ELSE a1, l1, "tabs")
            ELSE IF widget = "chat_input_key" /\ a1.pc = "created"
            THEN Answered(s1, FollowUpQuestion(a1, l1, in.question,
                                               s1.raw_context_for_chat,
                                               s1.report_for_chat, in.response))
            ELSE Shown(s1, a1, l1, "tabs")
        \* lines 671-692
        Customer(s1, a1, l1, report_md) ==
            IF s1.customer_summary_generated THEN ChatTab(s1, a1, l1)
            ELSE IF ~in.customer_ok THEN Shown(s1, a1, l1, "exception")
            ELSE ChatTab([s1 EXCEPT !.audience_summaries.customer =
                                        GenerateAudienceSummary(report_md, "customer"),
                                    !.customer_summary_generated = TRUE], a1, l1)
        \* lines 645-669
        Executive(s1, a1, l1, report_md) ==
            IF s1.executive_summary_generated THEN Customer(s1, a1, l1, report_md)
            ELSE IF ~in.executive_ok THEN Shown(s1, a1, l1, "exception")
            ELSE Customer([s1 EXCEPT !.audience_summaries.executive =
                                         GenerateAudienceSummary(report_md, "executive"),
                                     !.executive_summary_generated = TRUE],
                          a1, l1, report_md)
        \* lines 614-617
        Results(s1, a1, l1) ==
            IF ~Truthy(s1.analysis_results) THEN Shown(s1, a1, l1, "error")
            ELSE Executive(s1, a1, l1, s1.analysis_results.v.report_markdown.v)
        \* lines 605-612
        Attached(s1, b) ==
            Results(s1,
                    IF Truthy(s1.raw_context_for_chat) /\ Truthy(s1.report_for_chat)
                           /\ ~Truthy(b.conversation_initialized)
                    THEN InitializeConversation(b, s1.raw_context_for_chat,
                                                s1.report_for_chat)
                    ELSE b,
                    NoLlm)
        \* lines 588-603
        Analyzed(results, b) ==
            IF Truthy(results)
            THEN Attached([s EXCEPT !.analysis_results = results,
                                    !.report_for_chat = results.v.report_markdown,
                                    !.raw_context_for_chat = results.v.raw_context], b)
            ELSE Results([s EXCEPT !.analysis_results = results], a, l)
    IN  IF s.analysis_results = PyNone
        THEN Analyzed(in.outcome.results, in.outcome.analyzer)
        ELSE Results(s, a, l)

\* the files of the upload
SessionUpload == <<"a.log", "m.csv">>

Questions == {<<"q1">>, <<"q2">>}

\* llm.invoke(messages): an exception, or an answer
ChatResponses ==
    {[ok |-> FALSE, content |-> <<"timeout">>],
     [ok |-> TRUE, content |-> <<" ", "a", "\n">>]}

\* the outcomes of a script run that makes no call
NoCalls ==
    [outcome |-> [results |-> PyNone, analyzer |-> NoAnalyzer],
     executive_ok |-> TRUE, customer_ok |-> TRUE,
     question |-> <<>>, response |-> [ok |-> FALSE, content |-> <<>>]]

\* the key handed to analyze_incident_data: none for a demo, the key typed
\* into the upload form otherwise
ApiKeys(id) == IF id = TempIncident THEN {k \in Keys : Truthy(k)} ELSE {PyNone}

\* the outcomes of the calls of a script run in session s, whatever the
\* keys are
Outcomes(s) ==
    {[NoCalls EXCEPT !.outcome = o, !.executive_ok = e, !.customer_ok = c] :
        o \in IF s.analysis_results = PyNone
              THEN UNION {AnalyzeIncidentData(s.incident_id.v[1], api_key, env_key) :
                             api_key \in ApiKeys(s.incident_id.v[1]), env_key \in Keys}
              ELSE {NoCalls.outcome},
        e \in IF s.executive_summary_generated THEN {TRUE} ELSE BOOLEAN,
        c \in IF s.customer_summary_generated THEN {TRUE} ELSE BOOLEAN}

InitSession ==
    /\ response = [ok |-> FALSE, content |-> <<>>]
    /\ report = Idle
    /\ events = NoEvents
    /\ chart = NoChart
    /\ NotAnalyzing

\* src/app.py 253-260 and 308-320: "Analyze Demo" with a demo chosen, or
\* "Analyze My Data" with a key and files, and the script run that
\* st.rerun() starts
DoEnterAnalysis ==
    /\ session.current_view = "home"
    /\ \E id \in Demos \cup {TempIncident} :
          /\ disk' = IF id = TempIncident THEN SaveUploadedFiles(SessionUpload) ELSE disk
          /\ \E in \in Outcomes(EnterAnalysis(session, id)) :
                LET Run(r) ==
                        /\ session' = r.session
                        /\ analyzer' = r.analyzer
                        /\ llm' = r.llm
                IN  Run(RenderAnalysisView(EnterAnalysis(session, id), NoAnalyzer,
                                           NoLlm, "analyze_btn", in))
    /\ UNCHANGED <<response, report, events, chart, run>>

\* src/app.py 573-583: "Back to Home", and the home view that st.rerun()
\* draws
DoBackToHome ==
    /\ session.current_view = "analysis"
    /\ session' = BackToHome(session)
    /\ analyzer' = IF analyzer.pc = "created" THEN ClearConversation(analyzer) ELSE analyzer
    /\ disk' = NoDisk
    /\ UNCHANGED <<response, report, events, chart, run, llm>>

\* a script run of the analysis view that no chat widget caused
DoRerun ==
    /\ session.current_view = "analysis"
    /\ \E in \in Outcomes(session) :
          LET Run(r) ==
                  /\ session' = r.session
                  /\ analyzer' = r.analyzer
                  /\ llm' = r.llm
          IN  Run(RenderAnalysisView(session, analyzer, llm, "none", in))
    /\ UNCHANGED <<response, report, events, chart, disk, run>>

\* src/app.py 699-703: "Clear Conversation"
DoClearConversation ==
    /\ session.screen = "tabs"
    /\ LET Run(r) ==
               /\ session' = r.session
               /\ analyzer' = r.analyzer
               /\ llm' = r.llm
       IN  Run(RenderAnalysisView(session, analyzer, llm, "clear_chat", NoCalls))
    /\ UNCHANGED <<response, report, events, chart, disk, run>>

\* src/app.py 711-735: a question typed into the chat input
DoChatInput ==
    /\ session.screen = "tabs"
    /\ Len(session.chat_history) < 2 * MaxQuestions
    /\ llm.calls < MaxCalls
    /\ \E question \in Questions, resp \in ChatResponses :
          LET Run(r) ==
                  /\ session' = r.session
                  /\ analyzer' = r.analyzer
                  /\ llm' = r.llm
          IN  Run(RenderAnalysisView(session, analyzer, llm, "chat_input_key",
                                     [NoCalls EXCEPT !.question = question,
                                                     !.response = resp]))
    /\ UNCHANGED <<response, report, events, chart, disk, run>>

NextSession ==
    DoEnterAnalysis \/ DoBackToHome \/ DoRerun \/ DoClearConversation \/ DoChatInput

SpecSession == InitSession /\ [][NextSession]_vars

----------------------------------------------------------------------------
(* Properties of generate_report                                           *)

MalformedCases ==
    {[text |-> ChannelText(c, r), rest |-> r] : c \in MalformedContents, r \in Rests}

\* C1: a TIMELINE_JSON channel with malformed content (no json fence, a
\* truncated or otherwise invalid document) never makes generate_report
\* raise: the channel counts as absent, the text fallback is attempted, and
\* the narrative, the monitoring code and the regression test are returned.
C1_MalformedTimelineNeverRaises ==
    \A m \in MalformedCases :
        (response.ok /\ response.content = m.text /\ report.pc # "idle") =>
            /\ report.pc = "returned"
            /\ report.fallback_called
            /\ report.timeline_events = EventsValue(m.rest.section_events)
            /\ report.report_markdown = Strip(<<"x", "\n">> \o m.rest.narrative)
            /\ report.monitoring_code = m.rest.monitoring_code
            /\ report.regression_test_code = m.rest.regression_test_code

C1_Witness ==
    /\ report.pc = "returned"
    /\ response.content = ChannelText(Fenced(SubSeq(FullDoc, 1, 5)), SectionRest)
    /\ report.fallback_called
    /\ report.timeline_events = EventsValue(SectionRest.section_events)

\* some sentinel marker, opening or closing, occurs in the text
HasMarker(text) ==
    \E ch \in Channels : Contains(text, OpenMarker(ch)) \/ Contains(text, CloseMarker(ch))

\* the timeline channel of the text holds a json fence with a JSON array
HoldsJsonArray(text) ==
    LET m == SearchSpan(text, TOpen, TClose)
        b == JsonBlock(m.group)
        v == JsonLoads(b.group)
    IN  m.found /\ b.found /\ v.ok /\ v.val.t = "list"

\* C2: when the TIMELINE_JSON channel holds a well-formed JSON array, the
\* returned narrative contains no sentinel marker, opening or closing,
\* whatever else the response contains.
C2_NarrativeHasNoMarker ==
    (report.pc = "returned" /\ HoldsJsonArray(response.content))
        => ~HasMarker(report.report_markdown)

\* the three-channel extraction applied to a text
Segment(text) == GenerateReport([ok |-> TRUE, content |-> text])

ChannelsFound(text) ==
    {ch \in Channels : SearchSpan(text, OpenMarker(ch), CloseMarker(ch)).found}

\* C3: segmentation is idempotent: a second extraction on the narrative of
\* the first finds no channel and returns the narrative unchanged.
C3_SegmentationIdempotent ==
    report.pc = "returned" =>
        /\ ChannelsFound(report.report_markdown) = {}
        /\ Segment(report.report_markdown).report_markdown = report.report_markdown

PlainSections ==
    {[text |-> SectionText(p, <<".">>, [k \in 1..Len(evs) |-> PlainLine(evs[k][1], evs[k][2])], t),
      evs |-> evs] :
        p \in HeadingPrefixes, t \in Trailers,
        evs \in SeqsUpTo(PlainEvents, MaxLines) \ {<<>>}}

\* C4: a report whose timeline heading is written "2. Timeline of Events:"
\* (any heading depth, a plain dot after the number), followed by lines
\* "YYYY-MM-DD HH:MM:SS: text", yields one event per line, with the exact
\* timestamp and the trimmed text, in line order.
C4_FallbackMatchesPlainHeading ==
    \A sct \in PlainSections :
        (response.ok /\ response.content = sct.text /\ report.pc = "returned") =>
            /\ report.fallback_called
            /\ report.timeline_events = EventsValue(sct.evs)

WellFormedCases ==
    {[text |-> ChannelText(Fenced(EventsJson(evs)), r), evs |-> evs] :
        evs \in EventLists, r \in Rests}

JsonPathEmpty(text) ==
    LET m == SearchSpan(text, TOpen, TClose)
        b == JsonBlock(m.group)
        v == JsonLoads(b.group)
    IN  ~m.found \/ ~b.found \/ ~v.ok \/ ~Truthy(v.val)

IsEventList(x) ==
    /\ x.t = "list"
    /\ \A k \in 1..Len(x.v) :
          /\ x.v[k].t = "dict"
          /\ {KeyTime, KeyEvent} \subseteq DOMAIN x.v[k].v
          /\ IsStr(x.v[k].v[KeyTime])
          /\ IsStr(x.v[k].v[KeyEvent])

\* C6: whenever generate_report returns, timeline_events is a sequence of
\* objects with string fields time and event; valid JSON of another shape
\* is never passed on to the render layer.
C6_TimelineEventsAreEventList ==
    /\ report.pc = "returned" => IsEventList(report.timeline_events)
    /\ chart.pc # "idle" => IsEventList(events)

----------------------------------------------------------------------------
(* Properties of render_timeline_with_events                               *)

\* the entries of the list that carry a parseable timestamp
Parseable(evs) == {k \in 1..Len(evs) : ParseEvent(evs[k]).kind # "dropped"}

\* C7: if fewer than 2 entries of the list carry a parseable timestamp
\* (points and ranges together), the placeholder is shown and no dot and no
\* range bar is rendered.
C7_FewerThanTwoParsedShowsPlaceholder ==
    (chart.pc # "idle" /\ IsEventList(events) /\ Cardinality(Parseable(events.v)) < 2)
        => /\ chart.pc = "placeholder"
           /\ chart.dots = <<>>
           /\ chart.ranges = <<>>

\* C8: an empty list or a list of one event takes the placeholder path and
\* renders nothing, and for every list (also when all parsed instants
\* coincide) no projection divides by a zero duration.
C8_NoDivisionByZero ==
    chart.pc # "idle" =>
        /\ Len(events.v) <= 1 =>
              chart.pc = "placeholder" /\ chart.dots = <<>> /\ chart.ranges = <<>>
        /\ chart.message # "ZeroDivisionError"
        /\ \A i \in 1..Len(chart.dots) : chart.dots[i].pos.den > 0
        /\ \A i \in 1..Len(chart.ranges) :
              chart.ranges[i].left.den > 0 /\ chart.ranges[i].right.den > 0

C8_Witness ==
    /\ chart.pc = "chart"
    /\ Len(events.v) >= 2
    /\ chart.start_time = chart.end_time
    /\ Len(chart.dots) >= 2
    /\ \A i \in 1..Len(chart.dots) : chart.dots[i].pos = [num |-> 50, den |-> 1, zerodiv |-> FALSE]

\* the grammars tried in order, the first success returned: a range when
\* both sides parse, else a point when the string starts with a valid
\* timestamp, else nothing
FirstSuccess(event) ==
    LET time_field == TimeField(event)
        m == RangeMatch(time_field)
        end_full == IF TimeOnlyAt(m.group[2], 1) = Len(m.group[2])
                    THEN <<time_field[1], " ">> \o m.group[2] ELSE m.group[2]
    IN  IF m.found /\ ParseTime(m.group[1]).ok /\ ParseTime(end_full).ok THEN "range"
        ELSE IF ParseTime(time_field).ok THEN "point"
        ELSE "dropped"

DataOf(marks) == [i \in 1..Len(marks) |-> marks[i].data]

Picked(evs, kind) ==
    LET idx == SelectIdx(Len(evs), {k \in 1..Len(evs) : FirstSuccess(evs[k]) = kind})
    IN  [i \in 1..Len(idx) |-> evs[idx[i]]]

\* C9: a time field is parsed by the first grammar that succeeds; an event
\* of range shape whose end (or start) is no valid instant, but which
\* starts with a valid timestamp, is rendered as a point, not dropped.
C9_GrammarsTriedInOrder ==
    (chart.pc = "chart" /\ IsEventList(events)) =>
        /\ DataOf(chart.dots) = Picked(events.v, "point")
        /\ DataOf(chart.ranges) = Picked(events.v, "range")

\* the time field is missing or has neither the point nor the range shape
Unmatched(event) ==
    /\ ~RangeMatch(TimeField(event)).found
    /\ ~ParseTime(TimeField(event)).ok

WithoutUnmatched(evs) ==
    LET idx == SelectIdx(Len(evs), {k \in 1..Len(evs) : ~Unmatched(evs[k])})
    IN  [i \in 1..Len(idx) |-> evs[idx[i]]]

Marks(c) ==
    [drawn |-> c.pc = "chart", dots |-> c.dots, ranges |-> c.ranges,
     start_time |-> c.start_time, end_time |-> c.end_time]

\* C10: an event whose time is missing or matches neither grammar is
\* dropped without failing the render, and the other events are rendered
\* exactly as if it had not been in the list.
C10_DroppedEventsLeaveNoTrace ==
    (chart.pc # "idle" /\ IsEventList(PyList(WithoutUnmatched(events.v)))) =>
        /\ chart.pc # "raised"
        /\ Marks(chart) = Marks(RenderValue(PyList(WithoutUnmatched(events.v))))

----------------------------------------------------------------------------
(* Properties of the range grammar                                         *)

\* the instant written as date, time of day and seconds text
InstantOf(d, t, sec) ==
    DateVal(d) * 86400 + HmVal(t) * 60 + (IF sec = <<>> THEN 0 ELSE SecVal(sec[2]))

PointInstant == InstantOf("2024-01-15", "14:00", <<>>)

RangeStart(p) == InstantOf(p.d1, p.t1, p.s1)

RangeEnd(p) == InstantOf(IF p.d2 = <<>> THEN p.d1 ELSE p.d2[1], p.t2, p.s2)

\* C11: a range whose right-hand side has no date reuses the date of the
\* left-hand side: "D T1 - T2" is drawn as the range from D T1 to D T2, and
\* "D1 T1 - D2 T2" as the range from D1 T1 to D2 T2 (seconds optional,
\* defaulting to 00).
C11_RangeEndReusesStartDate ==
    \A p \in RangeParts :
        (chart.pc # "idle" /\ TimeField(events.v[1]) = RangeField(p)) =>
            /\ chart.pc = "chart"
            /\ DataOf(chart.dots) = <<PointEvent>>
            /\ Len(chart.ranges) = 1
            /\ chart.ranges[1].data = events.v[1]
            /\ chart.start_time = Min({RangeStart(p), RangeEnd(p), PointInstant})
            /\ chart.end_time = Max({RangeStart(p), RangeEnd(p), PointInstant})
            /\ chart.ranges[1].left =
                  Project(RangeStart(p), chart.start_time,
                          chart.end_time - chart.start_time, 0)
            /\ chart.ranges[1].right =
                  Project(RangeEnd(p), chart.start_time,
                          chart.end_time - chart.start_time, 100)

C11_Witness ==
    /\ chart.pc = "chart"
    /\ TimeField(events.v[1]) =
          <<"2024-01-16", " ", "14:00", " ", "-", " ", "14:30", ":", "30">>
    /\ chart.start_time = 840 * 60
    /\ chart.end_time = 86400 + 870 * 60 + 30
    /\ chart.ranges[1].left.num = 86400 * 100
    /\ chart.ranges[1].right.num = (86400 + 1830) * 100
    /\ chart.ranges[1].right.den = 86400 + 1830

----------------------------------------------------------------------------
(* Properties of the axis                                                  *)

\* the instants of the events that parse_time accepted
ParsedInstants(evs) ==
    UNION {{ParseEvent(evs[k]).start, ParseEvent(evs[k]).end} :
              k \in {k \in 1..Len(evs) : ParseEvent(evs[k]).kind # "dropped"}}

\* every drawn mark of the chart: its instant and its projection
DrawnMarks(c) ==
    {[t |-> ParseEvent(c.dots[i].data).start, pos |-> c.dots[i].pos] :
        i \in 1..Len(c.dots)}
    \cup {[t |-> ParseEvent(c.ranges[i].data).start, pos |-> c.ranges[i].left] :
        i \in 1..Len(c.ranges)}
    \cup {[t |-> ParseEvent(c.ranges[i].data).end, pos |-> c.ranges[i].right] :
        i \in 1..Len(c.ranges)}

\* C12: the axis starts at the minimum and ends at the maximum over all
\* parsed point instants and all range starts and ends; when the duration
\* is positive the earliest instant is drawn at 0%, the latest at 100%,
\* every point and every range endpoint lies within [0, 100], and the
\* projection is monotone in time.
C12_AxisBoundsAndProjection ==
    chart.pc = "chart" =>
        LET duration == chart.end_time - chart.start_time
            marks == DrawnMarks(chart)
        IN  /\ chart.start_time = Min(ParsedInstants(events.v))
            /\ chart.end_time = Max(ParsedInstants(events.v))
            /\ {m.t : m \in marks} = ParsedInstants(events.v)
            /\ duration > 0 =>
                  /\ \A m \in marks :
                        /\ m.pos.den = duration
                        /\ 0 <= m.pos.num /\ m.pos.num <= 100 * m.pos.den
                        /\ m.t = chart.start_time => m.pos.num = 0
                        /\ m.t = chart.end_time => m.pos.num = 100 * m.pos.den
                  /\ \A m1, m2 \in marks :
                        m1.t <= m2.t => m1.pos.num <= m2.pos.num

\* a range that ends before it starts, and a later point
C12_Witness ==
    /\ chart.pc = "chart"
    /\ Len(events.v) = 2
    /\ TimeField(events.v[1]) = <<"2024-01-15", " ", "23:30", " ", "-", " ", "00:15">>
    /\ TimeField(events.v[2]) = <<"2024-01-16", " ", "00:15">>
    /\ chart.start_time = 15 * 60
    /\ chart.end_time = 86400 + 15 * 60
    /\ chart.ranges[1].left.num = (1410 - 15) * 60 * 100
    /\ chart.ranges[1].right.num = 0
    /\ chart.dots[1].pos.num = 100 * chart.dots[1].pos.den

\* the axis over all parsed points and ranges: its start and its duration
FullAxis(evs) ==
    [start |-> Min(ParsedInstants(evs)),
     duration |-> Max(ParsedInstants(evs)) - Min(ParsedInstants(evs))]

\* C13: on the axis over all parsed points and ranges the tick step goes by
\* the duration: 10 minutes from the start rounded down to ten minutes
\* below 2 hours, 1 hour from the start rounded down to the hour from 2
\* hours to below 2 days, 1 day from midnight from 2 days on.
C13_TickStepByDuration ==
    (chart.pc = "chart" /\ "markers" \in DOMAIN chart /\ ParsedInstants(events.v) # {}) =>
        LET a == FullAxis(events.v)
            unit == IF a.duration < 7200 THEN 600
                    ELSE IF a.duration < 172800 THEN 3600 ELSE 86400
        IN  a.duration > 1 =>
                /\ chart.step = unit
                /\ chart.markers # <<>>
                /\ chart.markers[1] = a.start - (a.start % unit)

\* as C13 for lists without a range and with blanks only between date and
\* time
C13_PointsOnly ==
    (\A k \in 1..Len(events.v) :
        /\ ParseEvent(events.v[k]).kind # "range"
        /\ ParseEvent(events.v[k]).kind = "dropped" =>
              ~ParseStartTime(TimeField(events.v[k])).ok)
    => C13_TickStepByDuration

\* C14: whenever at most one second lies between the earliest and the
\* latest parsed instant (exactly one second included), no ticks are
\* generated and every point is placed at 50% of the axis.
C14_DegenerateAxis ==
    (chart.pc = "chart" /\ "markers" \in DOMAIN chart
                        /\ chart.end_time - chart.start_time <= 1) =>
        /\ chart.markers = <<>>
        /\ chart.labels = <<>>
        /\ \A i \in 1..Len(chart.dots) :
              chart.dots[i].pos.num = 50 * chart.dots[i].pos.den

\* the ticks made so far are one step apart from the anchor on and lie in
\* the frame; once the page is written the labels are the ticks that
\* project into [0, 100]
TicksInFrame ==
    (chart.pc \in {"markers", "chart"} /\ "markers" \in DOMAIN chart
        /\ chart.end_time - chart.start_time > 1) =>
        LET m == chart.markers
            from == chart.start_time - chart.step
            to == chart.end_time + chart.step
            first == IF m # <<>> THEN m[1] ELSE chart.current_marker_time
            within == SelectIdx(Len(m), {i \in 1..Len(m) :
                          chart.start_time <= m[i] /\ m[i] <= chart.end_time})
        IN  /\ chart.step > 0
            /\ from < first /\ first <= chart.start_time
            /\ \A i \in 2..Len(m) : m[i] = m[i - 1] + chart.step
            /\ \A i \in 1..Len(m) : from <= m[i] /\ m[i] <= to
            /\ m # <<>> => chart.current_marker_time = m[Len(m)] + chart.step
            /\ chart.pc = "chart" =>
                  /\ m # <<>> /\ m[Len(m)] + chart.step > to
                  /\ Len(chart.labels) = Len(within)
                  /\ \A i \in 1..Len(within) :
                        /\ chart.labels[i].dt = m[within[i]]
                        /\ chart.labels[i].pos.num =
                              (m[within[i]] - chart.start_time) * 100
                        /\ chart.labels[i].pos.den =
                              chart.end_time - chart.start_time

\* C15: tick generation terminates whenever the start lies before the end,
\* and its ticks are exactly one step apart, begin at the anchor
\* (start - step < anchor <= start), end no later than end + step, all lie
\* within [start - step, end + step], and only those that project into
\* [0, 100] are drawn as labels.
C15_TickGenerationTerminates ==
    /\ []TicksInFrame
    /\ (chart.pc = "markers") ~> (chart.pc = "chart")

\* 14:00:01 to 16:00: fourteen ticks from 14:00 to 16:10, of which the first
\* and the last are not drawn
C15_Witness ==
    /\ chart.pc = "chart"
    /\ "markers" \in DOMAIN chart
    /\ chart.start_time = 840 * 60 + 1
    /\ chart.end_time = 960 * 60
    /\ chart.step = 600
    /\ Len(chart.markers) = 14
    /\ chart.markers[1] = 840 * 60
    /\ chart.markers[14] = 970 * 60
    /\ Len(chart.labels) = 12

----------------------------------------------------------------------------
(* Properties of the segmentation                                          *)

\* the text without the first marked span of the channel, markers included
WithoutFirstSpan(text, ch) ==
    LET m == SearchSpan(text, OpenMarker(ch), CloseMarker(ch))
    IN  IF m.found
        THEN Strip(Slice(text, 1, m.start - 1) \o Slice(text, m.end + 1, Len(text)))
        ELSE text

\* C16: for each channel the content of the first open/close marker pair
\* is captured and only that marked span is removed: everything outside
\* the extracted spans, a second marked span of the same channel included,
\* stays in the narrative (up to trimming), and a channel without a marker
\* pair yields an empty value and removes nothing.
C16_OnlyFirstSpanRemoved ==
    report.pc = "returned" =>
        LET t1 == Strip(WithoutFirstSpan(response.content, "TIMELINE_JSON"))
            m2 == SearchSpan(t1, OpenMarker("MONITORING_CODE"), CloseMarker("MONITORING_CODE"))
            t2 == WithoutFirstSpan(t1, "MONITORING_CODE")
            m3 == SearchSpan(t2, OpenMarker("REGRESSION_TEST"), CloseMarker("REGRESSION_TEST"))
            t3 == WithoutFirstSpan(t2, "REGRESSION_TEST")
        IN  /\ report.report_markdown = t3
            /\ report.monitoring_code = IF m2.found THEN Strip(m2.group) ELSE <<>>
            /\ report.regression_test_code = IF m3.found THEN Strip(m3.group) ELSE <<>>

----------------------------------------------------------------------------
(* Properties of the analysis of an incident directory                     *)

\* the file types the upload form names as supported
SupportedExts == {".log", ".csv", ".txt", ".json"}

\* the upload was saved, the analyzer was made and the model has answered
UploadAnalyzed ==
    /\ run.entry = "upload" /\ run.pc = "done"
    /\ analyzer.pc = "created" /\ response.ok

\* C17: every uploaded file of a supported type (.log, .csv, .txt, .json)
\* is part of the incident data that is analyzed: its content is in the
\* context sent to the model, so that an upload of only .txt or .json files
\* is analyzed and not rejected with "No log or metrics files found".
C17_UploadedFilesAreAnalyzed ==
    UploadAnalyzed =>
        \A i \in 1..Len(run.uploaded_files) :
            Ext(run.uploaded_files[i]) \in SupportedExts =>
                /\ FailedToAnalyze \notin {run.output[k] : k \in 1..Len(run.output)}
                /\ run.uploaded_files[i] \in
                      {run.context[k][2] : k \in 1..Len(run.context)}

\* as C17 for uploads of .log and .csv files only
C17_LogsAndMetricsOnly ==
    (\A i \in 1..Len(run.uploaded_files) :
        Ext(run.uploaded_files[i]) \in {".log", ".csv"})
    => C17_UploadedFilesAreAnalyzed

\* C18: when the incident path exists and generate_report returns its
\* result, the analyze command writes the report to post_mortem_report.md,
\* prints "Analysis complete!" and ends without Exit(1); Exit(1) is reached
\* only when the path is missing, the configuration is invalid, or the
\* analysis itself fails.
C18_AnalyzeCommandSavesReport ==
    (run.entry = "cli" /\ run.pc = "done") =>
        /\ (disk.exists /\ report.pc = "returned") =>
              /\ disk.report_file = "written"
              /\ run.output[Len(run.output)] = AnalysisComplete
              /\ run.exit_code = 0
        /\ run.exit_code = 1 =>
              \/ ~disk.exists
              \/ analyzer.pc = "raised"
              \/ LoadAndPrepareData(disk).error # ""
              \/ report.pc = "raised"

\* the api_key argument if it is not empty, else GOOGLE_API_KEY
EffectiveKey ==
    IF run.api_key \notin {PyNone, PyStr(<<>>)} THEN run.api_key ELSE run.env_key

\* C19: constructing IncidentAnalyzer raises ValueError, before a model
\* client or a conversation memory is made, exactly when the effective API
\* key is missing, empty or the placeholder "YOUR_API_KEY_HERE"; otherwise
\* the analyzer is made with an empty memory and conversation_initialized
\* = False.
C19_ConstructorValidatesKey ==
    analyzer.pc # "none" =>
        /\ analyzer.pc = "raised" <=>
              EffectiveKey \in {PyNone, PyStr(<<>>), PlaceholderKey}
        /\ analyzer.pc = "raised" =>
              /\ ~analyzer.llm
              /\ analyzer.memory = PyNone
              /\ analyzer.conversation_initialized = PyNone
        /\ analyzer.pc = "created" =>
              /\ analyzer.api_key = EffectiveKey
              /\ analyzer.llm
              /\ analyzer.memory = EmptyList
              /\ analyzer.conversation_initialized = PyInt(0)

\* an empty argument: the key of the environment is the one that counts
C19_Witness ==
    /\ run.api_key = PyStr(<<>>)
    /\ run.env_key = PyStr(<<"k">>)
    /\ analyzer.pc = "created"
    /\ analyzer.api_key = PyStr(<<"k">>)
    /\ analyzer.memory = EmptyList

----------------------------------------------------------------------------
(* Properties of the extraction by headings                                *)

\* the markdown headings of a text: a "#" that opens a line outside a
\* fenced code block
HeadingStarts(text) ==
    {i \in 1..Len(text) :
        /\ text[i] = "#"
        /\ i = 1 \/ text[i - 1] = "\n"
        /\ Cardinality({j \in 1..(i - 1) : text[j] = "<fence>"}) % 2 = 0}

\* the section under the heading: from its "#" to the next markdown
\* heading or the end of the text, and its content after the heading text
SectionOf(text, heading) ==
    LET word == Min({w \in 1..Len(text) : text[w] \in heading})
        start == Max({i \in HeadingStarts(text) : i < word})
        later == {i \in HeadingStarts(text) : i > word}
        end == IF later = {} THEN Len(text) ELSE Min(later) - 1
    IN  [start |-> start, end |-> end, content |-> Strip(Slice(text, word + 1, end))]

\* a text without its whitespace
Unspaced(text) == SelectSeq(text, LAMBDA l : ~IsSpace(l))

\* a text without the lexemes at the positions cut
Cut(text, cut) ==
    LET idx == SelectIdx(Len(text), (1..Len(text)) \ cut)
    IN  [i \in 1..Len(idx) |-> text[idx[i]]]

\* C20: for a report with a "Suggested Monitoring as Code" and a "Suggested
\* Regression Test" section the extraction by headings captures the
\* content of each section up to the next markdown heading or the end of
\* the text, non-empty when the section has content; the cleaned report
\* holds neither heading text nor the extracted content, and the sections
\* before them are unchanged.
C20_SectionsExtractedByHeading ==
    report.pc = "returned" =>
        LET text == response.content
            mon == SectionOf(text, MonitoringHeading)
            reg == SectionOf(text, RegressionHeading)
        IN  /\ report.monitoring_code = mon.content
            /\ report.regression_test_code = reg.content
            /\ \A i \in 1..Len(report.report_markdown) :
                  report.report_markdown[i] \notin MonitoringHeading \cup RegressionHeading
            /\ Unspaced(report.report_markdown) =
                  Unspaced(Cut(text, (mon.start..mon.end) \cup (reg.start..reg.end)))

\* as C20 for sections with content and no "#" opening a line of that
\* content
C20_PlainContent ==
    (/\ \A i \in 2..Len(response.content) :
            response.content[i] = "#" /\ response.content[i - 1] = "\n"
                => i \in HeadingStarts(response.content)
     /\ SectionOf(response.content, MonitoringHeading).content # <<>>
     /\ SectionOf(response.content, RegressionHeading).content # <<>>)
    => C20_SectionsExtractedByHeading

----------------------------------------------------------------------------
(* Properties of the order of removal and fallback                         *)

\* the positions of the text inside a marked TIMELINE_JSON span, markers
\* included
RECURSIVE TimelineSpanPositions(_, _)
TimelineSpanPositions(text, from) ==
    LET Covered(m) ==
            IF ~m.found THEN {}
            ELSE (m.start..m.end) \cup TimelineSpanPositions(text, m.end + 1)
    IN  Covered(SearchSpanFrom(text, TOpen, TClose, from))

\* the response without its marked TIMELINE_JSON spans
OutsideTimeline(text) == Strip(Cut(text, TimelineSpanPositions(text, 1)))

\* C28: every marked TIMELINE_JSON span of the response is removed whether
\* or not its content parses, and before the fallback runs: the fallback
\* reads only the text outside the spans, its events are those of that
\* text, and the narrative is what the two code channels leave of it.
C28_SpanRemovedBeforeFallback ==
    report.pc = "returned" =>
        LET Holds(clean) ==
                /\ report.fallback_called =>
                      /\ report.fallback_arg = clean
                      /\ report.timeline_events = ExtractTimeline(clean)
                /\ report.report_markdown =
                      ExtractChannel(ExtractChannel(clean, "MONITORING_CODE").text,
                                     "REGRESSION_TEST").text
        IN  Holds(OutsideTimeline(response.content))

\* a marked span whose content gave no events, and a fallback that found
\* events in the text after it
C28_Witness ==
    /\ report.pc = "returned"
    /\ report.fallback_called
    /\ SearchSpan(response.content, TOpen, TClose).found
    /\ Truthy(report.timeline_events)
    /\ Len(report.fallback_arg) < Len(response.content)
    /\ ~Contains(report.fallback_arg, TOpen)

----------------------------------------------------------------------------
(* Properties of the range bars                                            *)

\* C29: every parsed range starts no later than it ends, so every range
\* bar has its left edge within [0, 100] and a width, right minus left,
\* that is not negative; this includes a range on one day whose end time
\* of day is earlier than its start time of day.
C29_RangesRunForward ==
    chart.pc = "chart" =>
        \A i \in 1..Len(chart.ranges) :
            LET Bar(r, left, right) ==
                    /\ r.start <= r.end
                    /\ 0 <= left.num /\ left.num <= 100 * left.den
                    /\ right.num * left.den - left.num * right.den >= 0
            IN  Bar(ParseEvent(chart.ranges[i].data),
                    chart.ranges[i].left, chart.ranges[i].right)

----------------------------------------------------------------------------
(* Properties of the conversation                                          *)

\* the message opens a conversation: it is what initialize_conversation adds
IsSystemMessage(m) ==
    m.type = "ai" /\ m.content # <<>> /\ m.content[1] = "INCIDENT CONTEXT (raw data):"

\* C21: after any sequence of initializations by the page, questions and
\* clears, conversation_initialized is true exactly when the memory is not
\* empty, and then the first message of the memory is the system message
\* with the incident context and the report of the session, and no other
\* message of the memory is a system message.
C21_InitializedIffMemory ==
    analyzer.pc = "created" =>
        LET Holds(initialized, messages) ==
                /\ initialized <=> messages # <<>>
                /\ initialized =>
                      /\ messages[1] = SystemMessage(session.raw_context_for_chat,
                                                     session.report_for_chat)
                      /\ Truthy(session.raw_context_for_chat)
                      /\ Truthy(session.report_for_chat)
                      /\ \A i \in 2..Len(messages) : ~IsSystemMessage(messages[i])
        IN  Holds(Truthy(analyzer.conversation_initialized), analyzer.memory.v)

\* a second question answered after a clear: one system message, then the
\* question and its answer
C21_Witness ==
    /\ analyzer.pc = "created"
    /\ Truthy(analyzer.conversation_initialized)
    /\ llm.calls = 2
    /\ Len(analyzer.memory.v) = 3
    /\ IsSystemMessage(analyzer.memory.v[1])
    /\ analyzer.memory.v[2] = Message("human", <<"q2">>)
    /\ analyzer.memory.v[3] = Message("ai", <<"a">>)

\* a question has been put to follow_up_question in this step
Asks ==
    /\ session'.widget = "chat_input_key"
    /\ Len(session'.chat_history) = Len(session.chat_history) + 2
    /\ analyzer.pc = "created"

\* C22: a question put while the conversation is not initialized and the
\* incident context or the report context is missing or empty is answered
\* with the fixed "I don't have access to the incident context" message,
\* the model is not invoked, and the memory and conversation_initialized
\* stay as they were.
C22_NoContextLeavesMemory ==
    [][(/\ Asks
        /\ ~Truthy(analyzer.conversation_initialized)
        /\ \/ ~Truthy(session.raw_context_for_chat)
           \/ ~Truthy(session.report_for_chat))
       => /\ session'.chat_history[Len(session'.chat_history)] =
                <<"assistant", NoContextMessage>>
          /\ llm' = llm
          /\ analyzer' = analyzer]_vars

\* a question answered with the fixed message, on an analyzer whose raw
\* context could not be loaded
C22_Witness ==
    /\ session.widget = "chat_input_key"
    /\ analyzer.pc = "created"
    /\ ~Truthy(session.raw_context_for_chat)
    /\ Truthy(session.report_for_chat)
    /\ session.chat_history = <<<<"user", <<"q1">>>>, <<"assistant", NoContextMessage>>>>
    /\ llm = NoLlm
    /\ analyzer.memory = EmptyList
    /\ ~Truthy(analyzer.conversation_initialized)

\* after the first message the messages are question, answer, question,
\* answer, ...
Alternates(messages) ==
    \A i \in 2..Len(messages) :
        messages[i].type = IF i % 2 = 0 THEN "human" ELSE "ai"

\* C23: after any sequence of questions, failed model invocations included,
\* the messages of the memory after the system message alternate strictly
\* between user question and assistant answer: no question stays without
\* an answer in the memory, nor in the messages sent with a later question.
C23_QuestionsAndAnswersAlternate ==
    (analyzer.pc = "created" /\ Truthy(analyzer.conversation_initialized)) =>
        /\ Alternates(analyzer.memory.v)
        /\ Len(analyzer.memory.v) % 2 = 1
        /\ Alternates(llm.received)
        /\ llm.received # <<>> => Len(llm.received) % 2 = 0

\* C24: after clear_conversation the memory is empty and
\* conversation_initialized is false, and the next question asked with
\* both contexts at hand initializes the conversation again: the model is
\* given exactly the system message followed by the new question, and no
\* message from before the clear.
C24_ClearThenAskStartsAfresh ==
    /\ []((session.widget = "clear_chat" /\ analyzer.pc = "created") =>
             /\ analyzer.memory = EmptyList
             /\ ~Truthy(analyzer.conversation_initialized))
    /\ [][(/\ session.widget = "clear_chat"
           /\ Asks
           /\ Truthy(session.raw_context_for_chat)
           /\ Truthy(session.report_for_chat))
          => /\ llm'.calls = llm.calls + 1
             /\ llm'.received =
                   <<SystemMessage(session.raw_context_for_chat, session.report_for_chat),
                     Message("human",
                             session'.chat_history[Len(session'.chat_history) - 1][2])>>
             /\ Truthy(analyzer'.conversation_initialized)]_vars

\* the second invocation of one analyzer is given two messages only: the
\* conversation with the first question was cleared in between
C24_Witness ==
    /\ session.widget = "chat_input_key"
    /\ analyzer.pc = "created"
    /\ llm.calls = 2
    /\ llm.received =
          <<SystemMessage(session.raw_context_for_chat, session.report_for_chat),
            Message("human", <<"q2">>)>>
    /\ analyzer.memory.v = Append(llm.received, Message("ai", <<"a">>))
    /\ session.chat_history = <<<<"user", <<"q2">>>>, <<"assistant", <<"a">>>>>>

\* a message of the memory as the chat history shows it
Displayed(m) == <<IF m.type = "human" THEN "user" ELSE "assistant", m.content>>

\* C25: after any sequence of questions and "Clear Conversation" clicks in
\* the chat tab, chat_history is the message sequence of the memory
\* without the system message: the same questions and the same answers in
\* the same order, also after a failed model call and after a question
\* asked while no incident context is at hand.
C25_ChatHistoryIsMemory ==
    (session.screen = "tabs" /\ analyzer.pc = "created") =>
        LET Same(messages) ==
                /\ Len(session.chat_history) = Max({Len(messages) - 1, 0})
                /\ \A i \in 1..Len(session.chat_history) :
                      session.chat_history[i] = Displayed(messages[i + 1])
        IN  Same(analyzer.memory.v)

----------------------------------------------------------------------------
(* Properties of the session across analyses                               *)

\* C26: the data of an analysis is discarded when the next analysis
\* replaces it: whenever the report tab is drawn, after a return home and
\* the analysis of a second incident too, the executive summary and the
\* customer support briefing it displays are generated from the report of
\* the analysis on display, never the summaries of an earlier incident.
C26_SummariesOfCurrentReport ==
    session.screen = "tabs" =>
        LET Of(report_md) ==
                /\ session.audience_summaries.executive =
                      GenerateAudienceSummary(report_md, "executive")
                /\ session.audience_summaries.customer =
                      GenerateAudienceSummary(report_md, "customer")
        IN  Of(session.analysis_results.v.report_markdown.v)

\* the results on display, the chat context and the analyzer of the
\* session are those of an analysis of the incident id
BelongsTo(id) ==
    LET Of(results, rep, ctx) ==
            /\ results.report_markdown \in {PyStr(<<>>), rep}
            /\ results.timeline_events = TimelineOf(id)
            /\ results.raw_context \in {PyStr(<<>>), ctx}
            /\ session.report_for_chat = results.report_markdown
            /\ session.raw_context_for_chat = results.raw_context
            /\ analyzer.pc = "created"
            /\ Truthy(analyzer.conversation_initialized) =>
                  analyzer.memory.v[1] = SystemMessage(ctx, rep)
            /\ llm.received # <<>> => llm.received[1] = SystemMessage(ctx, rep)
    IN  Of(session.analysis_results.v, PyStr(ReportOf(id)), PyStr(ContextOf(id)))

\* C27: across any sequence of "Analyze Demo", "Analyze My Data" and "Back
\* to Home" clicks every step from the home view into the analysis view
\* finds analysis_results absent or None, so that the analysis runs anew
\* for the incident chosen, and enters with an empty chat_history; the
\* report, the timeline, the chat context and the analyzer used in the
\* analysis view are always those of the current incident_id.
C27_FreshAnalysisOnEntry ==
    /\ [](session.current_view = "home" => session.analysis_results = PyNone)
    /\ []((session.current_view = "analysis" /\ Truthy(session.analysis_results))
             => BelongsTo(session.incident_id.v[1]))
    /\ [][(session.current_view = "home" /\ session'.current_view = "analysis")
             => /\ session.analysis_results = PyNone
                /\ session'.chat_history = <<>>
                /\ session'.incident_id # PyNone]_vars

\* the report tab of demo-2, entered after an analysis of demo-1 of which
\* the summaries are left
C27_Witness ==
    /\ session.screen = "tabs"
    /\ session.widget = "analyze_btn"
    /\ session.incident_id = PyStr(<<"demo-2">>)
    /\ session.analysis_results.v.report_markdown = PyStr(ReportOf("demo-2"))
    /\ session.report_for_chat = PyStr(ReportOf("demo-2"))
    /\ session.raw_context_for_chat = PyStr(ContextOf("demo-2"))
    /\ session.audience_summaries.executive =
          GenerateAudienceSummary(ReportOf("demo-1"), "executive")
    /\ session.chat_history = <<>>
    /\ Len(analyzer.memory.v) = 1
====
